---- MODULE Spec2Model ----
(***************************************************************************)
(* The typed XSD syntax tree of schematis and its query layer.             *)
(*                                                                         *)
(* A node is built once from a structured input (a tag, its attributes     *)
(* and its ordered children) and is read-only afterwards.  A body is the   *)
(* ordered list of the node's children, each a tagged variant carrying a   *)
(* payload.  A payload is identified by the position of the input child    *)
(* it was built from, which is what a Rust reference into the body         *)
(* denotes.  The accessors project a body into the views of the query      *)
(* layer: a single optional child, all children of a kind, the particles   *)
(* of a content model, the facets of a restriction, the content of a       *)
(* simple type.                                                            *)
(***************************************************************************)
EXTENDS Integers, Sequences, FiniteSets, TLC

\* Longest body (number of children of one node) the inputs reach.
MaxBody == 3

\* Longest attribute value, in characters, among the enumerated values.
MaxAttrLen == 3

\* Largest number of attributes of an input node.
MaxAttrs == 2

\* Largest number of children of the root of an input document.
MaxWidth == 2

\* Number of readers that share one constructed schema.
MaxReaders == 2

\* Width in bits of u32, the declared numeric type of Bounded(u32).
U32Bits == 32

BoundedSeq(S, n) == UNION {[1..k -> S] : k \in 0..n}

\* Option<T>: None is the empty sequence, Some(x) the one-element sequence.
None == <<>>
Some(x) == <<x>>

(***************************************************************************)
(* The closed variant set of each container's body enum.                   *)
(***************************************************************************)
SchemaBody ==
    {"Include", "Import", "Override", "Redefine", "Annotation",
     "DefaultOpenContent", "SimpleType", "ComplexType", "Group",
     "AttributeGroup", "Element", "Attribute", "Notation"}

ComplexTypeBody ==
    {"Annotation", "All", "Assert", "Sequence", "Attribute", "AttributeGroup",
     "AnyAttribute", "Group", "ComplexContent", "SimpleContent", "OpenContent",
     "Choice"}

SimpleTypeBody == {"Annotation", "Restriction", "Union", "List"}

RestrictionBody ==
    {"Pattern", "Length", "Annotation", "WhiteSpace", "SimpleType",
     "AnyAttribute", "MinInclusive", "MaxInclusive", "MinExclusive",
     "MaxExclusive", "MinLength", "MaxLength", "FractionDigits", "TotalDigits",
     "Enumeration", "Sequence", "Attribute", "AttributeGroup", "Group", "All",
     "Choice", "Assertion", "ExplicitTimezone", "Assert"}

SequenceBody == {"Any", "Annotation", "Element", "Group", "Sequence", "Choice"}

ChoiceBody == {"Any", "Annotation", "Element", "Group", "Choice", "Sequence"}

AllBody == {"Annotation", "Element", "Any", "Group"}

GroupBody == {"All", "Annotation", "Assert", "Choice", "Sequence"}

AttributeBody == {"Annotation", "SimpleType"}

\* Shared by OpenContent and DefaultOpenContent.
OpenContentBody == {"Any", "Annotation"}

UnionBody == {"SimpleType", "Annotation"}

ListBody == {"SimpleType", "Annotation"}

\* Shared by SimpleContent and ComplexContent.
ContentBody == {"Annotation", "Restriction", "Extension"}

ExtensionBody ==
    {"All", "Assert", "Group", "Attribute", "AnyAttribute", "AttributeGroup",
     "Sequence", "Choice", "Annotation", "OpenContent"}

UniqueBody == {"Annotation", "Selector", "Field"}

KeyBody == {"Annotation", "Selector", "Field"}

KeyrefBody == {"Annotation", "Selector", "Field"}

ElementBody ==
    {"Annotation", "SimpleType", "ComplexType", "Unique", "Key", "Keyref",
     "Alternative"}

AnnotationBody == {"AppInfo", "Documentation"}

\* The body enum a node type holds in its `body` field (none for Any, whose
\* body is an Option<Annotation> and which is built without children here).
BodyEnum(type) ==
    CASE type = "Schema" -> SchemaBody
      [] type = "ComplexType" -> ComplexTypeBody
      [] type = "SimpleType" -> SimpleTypeBody
      [] type = "Restriction" -> RestrictionBody
      [] type = "Sequence" -> SequenceBody
      [] type = "Choice" -> ChoiceBody
      [] type = "All" -> AllBody
      [] type = "Group" -> GroupBody
      [] type = "Element" -> ElementBody
      [] type = "Attribute" -> AttributeBody
      [] type \in {"OpenContent", "DefaultOpenContent"} -> OpenContentBody
      [] type = "Union" -> UnionBody
      [] type = "List" -> ListBody
      [] type \in {"SimpleContent", "ComplexContent"} -> ContentBody
      [] type = "Extension" -> ExtensionBody
      [] type = "Unique" -> UniqueBody
      [] type = "Key" -> KeyBody
      [] type = "Keyref" -> KeyrefBody
      [] type = "Annotation" -> AnnotationBody
      [] OTHER -> {}

(***************************************************************************)
(* Binding of input tags to variants: every body enum is declared with     *)
(* rename_all = "camelCase", so the variant V is selected by the input     *)
(* tag that is V with its first letter in lower case (AppInfo is renamed   *)
(* to "appinfo" explicitly).  Renamed pairs each variant name with its     *)
(* tag.                                                                    *)
(***************************************************************************)
Renamed ==
    {<<"Include", "include">>, <<"Import", "import">>,
     <<"Override", "override">>, <<"Redefine", "redefine">>,
     <<"Annotation", "annotation">>,
     <<"DefaultOpenContent", "defaultOpenContent">>,
     <<"SimpleType", "simpleType">>, <<"ComplexType", "complexType">>,
     <<"Group", "group">>, <<"AttributeGroup", "attributeGroup">>,
     <<"Element", "element">>, <<"Attribute", "attribute">>,
     <<"Notation", "notation">>, <<"All", "all">>, <<"Assert", "assert">>,
     <<"Sequence", "sequence">>, <<"AnyAttribute", "anyAttribute">>,
     <<"ComplexContent", "complexContent">>,
     <<"SimpleContent", "simpleContent">>, <<"OpenContent", "openContent">>,
     <<"Choice", "choice">>, <<"Restriction", "restriction">>,
     <<"Union", "union">>, <<"List", "list">>, <<"Pattern", "pattern">>,
     <<"Length", "length">>, <<"WhiteSpace", "whiteSpace">>,
     <<"MinInclusive", "minInclusive">>, <<"MaxInclusive", "maxInclusive">>,
     <<"MinExclusive", "minExclusive">>, <<"MaxExclusive", "maxExclusive">>,
     <<"MinLength", "minLength">>, <<"MaxLength", "maxLength">>,
     <<"FractionDigits", "fractionDigits">>,
     <<"TotalDigits", "totalDigits">>, <<"Enumeration", "enumeration">>,
     <<"Assertion", "assertion">>,
     <<"ExplicitTimezone", "explicitTimezone">>, <<"Any", "any">>,
     <<"Unique", "unique">>, <<"Key", "key">>, <<"Keyref", "keyref">>,
     <<"Alternative", "alternative">>, <<"Extension", "extension">>,
     <<"Selector", "selector">>, <<"Field", "field">>,
     <<"AppInfo", "appinfo">>, <<"Documentation", "documentation">>}

camelCase ==
    [v \in {p[1] : p \in Renamed} |-> (CHOOSE p \in Renamed : p[1] = v)[2]]

\* The tags a body enum accepts.
Tags(enum) == {camelCase[v] : v \in enum}

\* A tag of the XSD vocabulary that no body enum accepts (schema is the tag
\* of the root only).
ForeignTag == "schema"

\* The variants of `enum` an input tag selects (none for a foreign tag).
VariantsOf(enum, tag) == {v \in enum : camelCase[v] = tag}

\* Deserialization of a `$value` child list into Vec<enum>: every child is
\* dispatched to the variant its tag names, in input order; the payload of
\* the i-th entry is the value built from the i-th input child.  A child
\* whose tag names no variant is an error (Err is the empty set here, Ok(b)
\* the singleton {b}).
DeserializeBody(enum, children) ==
    IF \A i \in 1..Len(children) : VariantsOf(enum, children[i]) # {}
    THEN {[i \in 1..Len(children) |->
              [variant |-> CHOOSE v \in VariantsOf(enum, children[i]) : TRUE,
               e |-> i]]}
    ELSE {}

(***************************************************************************)
(* The query layer.                                                        *)
(***************************************************************************)

\* The payloads of the entries of `body` that match `variant`, in body
\* order: the loop `for element in &body { if let V(e) = element
\* { elements.push(e) } }` shared by both macros.
RECURSIVE Collect(_, _)
Collect(body, variant) ==
    IF body = <<>> THEN <<>>
    ELSE LET rest == Collect(Tail(body), variant)
         IN IF Head(body).variant = variant
            THEN <<Head(body).e>> \o rest
            ELSE rest

\* Vec::pop: the last entry (None when empty) and the vector without it.
Pop(elements) ==
    IF elements = <<>>
    THEN [popped |-> None, left |-> <<>>]
    ELSE [popped |-> Some(elements[Len(elements)]),
          left |-> SubSeq(elements, 1, Len(elements) - 1)]

\* The loop ends at the first child that is not of the variant.
RECURSIVE CollectPrefix(_, _)
CollectPrefix(body, variant) ==
    IF body = <<>> \/ Head(body).variant # variant THEN <<>>
    ELSE <<Head(body).e>> \o CollectPrefix(Tail(body), variant)

ElementFromBodyOfPrefix(body, variant) ==
    LET elements == CollectPrefix(body, variant)
        element == Pop(elements).popped
    IN IF Pop(elements).left = <<>> THEN element ELSE None

ElementFromBodyKeepLast(body, variant) == Pop(Collect(body, variant)).popped

\* element_from_body!: collect the matches, pop the last one, and return it
\* only if no other match is left.
element_from_body(body, variant) ==
    LET elements == Collect(body, variant)
        element == Pop(elements).popped
    IN IF Pop(elements).left = <<>> THEN element ELSE None

RECURSIVE CollectReversed(_, _)
CollectReversed(body, variant) ==
    IF body = <<>> THEN <<>>
    ELSE LET rest == CollectReversed(Tail(body), variant)
         IN IF Head(body).variant = variant
            THEN rest \o <<Head(body).e>>
            ELSE rest

\* elements_from_body!: every match, in body order.
elements_from_body(body, variant) == Collect(body, variant)

\* The loop written out with an arm for SchemaBody::Override as well.
RECURSIVE ElementsAndOverrides(_)
ElementsAndOverrides(body) ==
    IF body = <<>> THEN <<>>
    ELSE IF Head(body).variant \in {"Element", "Override"}
         THEN <<Head(body).e>> \o ElementsAndOverrides(Tail(body))
         ELSE ElementsAndOverrides(Tail(body))

\* Schema::elements: the same loop written out for SchemaBody::Element
\* (as_ref() turns the &Box<Element> into the &Element it points to).
RECURSIVE elements(_)
elements(body) ==
    IF body = <<>> THEN <<>>
    ELSE IF Head(body).variant = "Element"
         THEN <<Head(body).e>> \o elements(Tail(body))
         ELSE elements(Tail(body))

\* Particle::<case>(e) and Facet::<case>(e): a view case wrapping a
\* reference to a payload of the body.
Particle(case, e) == [case |-> case, e |-> e]
Facet(case, e) == [case |-> case, e |-> e]

\* One arm of Sequence::items: what the loop pushes for one body entry.
SequenceItemSkipsSequence(element) ==
    CASE element.variant = "Any" -> <<Particle("Any", element.e)>>
      [] element.variant = "Annotation" -> <<>>
      [] element.variant = "Element" -> <<Particle("Element", element.e)>>
      [] element.variant = "Group" -> <<Particle("Group", element.e)>>
      [] element.variant = "Sequence" -> <<>>
      [] element.variant = "Choice" -> <<Particle("Choice", element.e)>>

\* One arm of Sequence::items.
SequenceItem(element) ==
    CASE element.variant = "Any" -> <<Particle("Any", element.e)>>
      [] element.variant = "Annotation" -> <<>>
      [] element.variant = "Element" -> <<Particle("Element", element.e)>>
      [] element.variant = "Group" -> <<Particle("Group", element.e)>>
      [] element.variant = "Sequence" -> <<Particle("Sequence", element.e)>>
      [] element.variant = "Choice" -> <<Particle("Choice", element.e)>>

\* Sequence::items
RECURSIVE Sequence_items(_)
Sequence_items(body) ==
    IF body = <<>> THEN <<>>
    ELSE SequenceItem(Head(body)) \o Sequence_items(Tail(body))

ChoiceItemSwapped(element) ==
    CASE element.variant = "Any" -> <<Particle("Any", element.e)>>
      [] element.variant = "Annotation" -> <<>>
      [] element.variant = "Element" -> <<Particle("Element", element.e)>>
      [] element.variant = "Group" -> <<Particle("Group", element.e)>>
      [] element.variant = "Sequence" -> <<Particle("Choice", element.e)>>
      [] element.variant = "Choice" -> <<Particle("Sequence", element.e)>>

\* One arm of Choice::items.
ChoiceItem(element) ==
    CASE element.variant = "Any" -> <<Particle("Any", element.e)>>
      [] element.variant = "Annotation" -> <<>>
      [] element.variant = "Element" -> <<Particle("Element", element.e)>>
      [] element.variant = "Group" -> <<Particle("Group", element.e)>>
      [] element.variant = "Sequence" -> <<Particle("Sequence", element.e)>>
      [] element.variant = "Choice" -> <<Particle("Choice", element.e)>>

\* Choice::items
RECURSIVE Choice_items(_)
Choice_items(body) ==
    IF body = <<>> THEN <<>>
    ELSE ChoiceItem(Head(body)) \o Choice_items(Tail(body))

AllItemSkipsGroup(element) ==
    CASE element.variant = "Annotation" -> <<>>
      [] element.variant = "Element" -> <<Particle("Element", element.e)>>
      [] element.variant = "Any" -> <<Particle("Any", element.e)>>
      [] element.variant = "Group" -> <<>>

\* One arm of All::items.
AllItem(element) ==
    CASE element.variant = "Annotation" -> <<>>
      [] element.variant = "Element" -> <<Particle("Element", element.e)>>
      [] element.variant = "Any" -> <<Particle("Any", element.e)>>
      [] element.variant = "Group" -> <<Particle("Group", element.e)>>

\* All::items
RECURSIVE All_items(_)
All_items(body) ==
    IF body = <<>> THEN <<>>
    ELSE AllItem(Head(body)) \o All_items(Tail(body))

\* Result<T, E>
Ok(x) == [ok |-> TRUE, val |-> x]
Err(msg) == [ok |-> FALSE, val |-> msg]

SimpleTypeContent(case, e) == [case |-> case, e |-> e]

\* The loop runs over the whole body and the last entry that is not an
\* annotation decides.
RECURSIVE ContentOfLast(_)
ContentOfLast(body) ==
    IF body = <<>>
    THEN Err("SimpleType has no valid content (restriction, union, or list)")
    ELSE IF body[Len(body)].variant = "Annotation"
         THEN ContentOfLast(SubSeq(body, 1, Len(body) - 1))
         ELSE Ok(SimpleTypeContent(body[Len(body)].variant, body[Len(body)].e))

RECURSIVE ContentOrDefault(_)
ContentOrDefault(body) ==
    IF body = <<>>
    THEN Ok(SimpleTypeContent("Restriction", 0))
    ELSE CASE Head(body).variant = "Annotation" -> ContentOrDefault(Tail(body))
           [] Head(body).variant = "Restriction" ->
                Ok(SimpleTypeContent("Restriction", Head(body).e))
           [] Head(body).variant = "Union" ->
                Ok(SimpleTypeContent("Union", Head(body).e))
           [] Head(body).variant = "List" ->
                Ok(SimpleTypeContent("List", Head(body).e))

RECURSIVE ContentUnionAsList(_)
ContentUnionAsList(body) ==
    IF body = <<>>
    THEN Err("SimpleType has no valid content (restriction, union, or list)")
    ELSE CASE Head(body).variant = "Annotation" -> ContentUnionAsList(Tail(body))
           [] Head(body).variant = "Restriction" ->
                Ok(SimpleTypeContent("Restriction", Head(body).e))
           [] Head(body).variant = "Union" ->
                Ok(SimpleTypeContent("List", Head(body).e))
           [] Head(body).variant = "List" ->
                Ok(SimpleTypeContent("List", Head(body).e))

\* SimpleType::content: the first entry that is not an annotation decides;
\* a body without one is an error.
RECURSIVE content(_)
content(body) ==
    IF body = <<>>
    THEN Err("SimpleType has no valid content (restriction, union, or list)")
    ELSE CASE Head(body).variant = "Annotation" -> content(Tail(body))
           [] Head(body).variant = "Restriction" ->
                Ok(SimpleTypeContent("Restriction", Head(body).e))
           [] Head(body).variant = "Union" ->
                Ok(SimpleTypeContent("Union", Head(body).e))
           [] Head(body).variant = "List" ->
                Ok(SimpleTypeContent("List", Head(body).e))

FacetArmAssertFolded(element) ==
    CASE element.variant = "Pattern" -> <<Facet("Pattern", element.e)>>
      [] element.variant = "Length" -> <<Facet("Length", element.e)>>
      [] element.variant = "Annotation" -> <<>>
      [] element.variant = "WhiteSpace" -> <<Facet("WhiteSpace", element.e)>>
      [] element.variant = "SimpleType" -> <<>>
      [] element.variant = "AnyAttribute" -> <<>>
      [] element.variant = "MinInclusive" -> <<Facet("MinExclusive", element.e)>>
      [] element.variant = "MaxInclusive" -> <<Facet("MaxInclusive", element.e)>>
      [] element.variant = "MinExclusive" -> <<Facet("MinExclusive", element.e)>>
      [] element.variant = "MaxExclusive" -> <<Facet("MaxExclusive", element.e)>>
      [] element.variant = "MinLength" -> <<Facet("MinLength", element.e)>>
      [] element.variant = "MaxLength" -> <<Facet("MaxLength", element.e)>>
      [] element.variant = "FractionDigits" -> <<Facet("FractionDigits", element.e)>>
      [] element.variant = "TotalDigits" -> <<Facet("TotalDigits", element.e)>>
      [] element.variant = "Enumeration" -> <<Facet("Enumeration", element.e)>>
      [] element.variant = "Sequence" -> <<>>
      [] element.variant = "Attribute" -> <<>>
      [] element.variant = "AttributeGroup" -> <<>>
      [] element.variant = "Group" -> <<>>
      [] element.variant = "All" -> <<>>
      [] element.variant = "Choice" -> <<>>
      [] element.variant = "Assertion" -> <<Facet("Assertion", element.e)>>
      [] element.variant = "ExplicitTimezone" -> <<Facet("ExplicitTimezone", element.e)>>
      [] element.variant = "Assert" -> <<Facet("Assertion", element.e)>>

FacetArmAnnotationKept(element) ==
    CASE element.variant = "Pattern" -> <<Facet("Pattern", element.e)>>
      [] element.variant = "Length" -> <<Facet("Length", element.e)>>
      [] element.variant = "Annotation" -> <<Facet("Pattern", element.e)>>
      [] element.variant = "WhiteSpace" -> <<Facet("WhiteSpace", element.e)>>
      [] element.variant = "SimpleType" -> <<>>
      [] element.variant = "AnyAttribute" -> <<>>
      [] element.variant = "MinInclusive" -> <<Facet("MinExclusive", element.e)>>
      [] element.variant = "MaxInclusive" -> <<Facet("MaxInclusive", element.e)>>
      [] element.variant = "MinExclusive" -> <<Facet("MinExclusive", element.e)>>
      [] element.variant = "MaxExclusive" -> <<Facet("MaxExclusive", element.e)>>
      [] element.variant = "MinLength" -> <<Facet("MinLength", element.e)>>
      [] element.variant = "MaxLength" -> <<Facet("MaxLength", element.e)>>
      [] element.variant = "FractionDigits" -> <<Facet("FractionDigits", element.e)>>
      [] element.variant = "TotalDigits" -> <<Facet("TotalDigits", element.e)>>
      [] element.variant = "Enumeration" -> <<Facet("Enumeration", element.e)>>
      [] element.variant = "Sequence" -> <<>>
      [] element.variant = "Attribute" -> <<>>
      [] element.variant = "AttributeGroup" -> <<>>
      [] element.variant = "Group" -> <<>>
      [] element.variant = "All" -> <<>>
      [] element.variant = "Choice" -> <<>>
      [] element.variant = "Assertion" -> <<Facet("Assertion", element.e)>>
      [] element.variant = "ExplicitTimezone" -> <<Facet("ExplicitTimezone", element.e)>>
      [] element.variant = "Assert" -> <<>>

\* One arm of the match in Restriction::facets: what the loop pushes for one
\* body entry (nothing for the arms that `continue`).
FacetArm(element) ==
    CASE element.variant = "Pattern" -> <<Facet("Pattern", element.e)>>
      [] element.variant = "Length" -> <<Facet("Length", element.e)>>
      [] element.variant = "Annotation" -> <<>>
      [] element.variant = "WhiteSpace" -> <<Facet("WhiteSpace", element.e)>>
      [] element.variant = "SimpleType" -> <<>>
      [] element.variant = "AnyAttribute" -> <<>>
      [] element.variant = "MinInclusive" -> <<Facet("MinExclusive", element.e)>>
      [] element.variant = "MaxInclusive" -> <<Facet("MaxInclusive", element.e)>>
      [] element.variant = "MinExclusive" -> <<Facet("MinExclusive", element.e)>>
      [] element.variant = "MaxExclusive" -> <<Facet("MaxExclusive", element.e)>>
      [] element.variant = "MinLength" -> <<Facet("MinLength", element.e)>>
      [] element.variant = "MaxLength" -> <<Facet("MaxLength", element.e)>>
      [] element.variant = "FractionDigits" -> <<Facet("FractionDigits", element.e)>>
      [] element.variant = "TotalDigits" -> <<Facet("TotalDigits", element.e)>>
      [] element.variant = "Enumeration" -> <<Facet("Enumeration", element.e)>>
      [] element.variant = "Sequence" -> <<>>
      [] element.variant = "Attribute" -> <<>>
      [] element.variant = "AttributeGroup" -> <<>>
      [] element.variant = "Group" -> <<>>
      [] element.variant = "All" -> <<>>
      [] element.variant = "Choice" -> <<>>
      [] element.variant = "Assertion" -> <<Facet("Assertion", element.e)>>
      [] element.variant = "ExplicitTimezone" -> <<Facet("ExplicitTimezone", element.e)>>
      [] element.variant = "Assert" -> <<>>

\* Restriction::facets
RECURSIVE facets(_)
facets(body) ==
    IF body = <<>> THEN <<>>
    ELSE FacetArm(Head(body)) \o facets(Tail(body))

(***************************************************************************)
(* Attribute values.  A value is the sequence of its characters.  A u32    *)
(* is kept as two 16-bit halves [hi, lo] (the number hi * 2^16 + lo), so   *)
(* that the 32-bit range check of the parse is computed exactly.           *)
(***************************************************************************)
Half == 2 ^ (U32Bits \div 2)

Digits == {"0", "1", "2", "3", "4", "5", "6", "7", "8", "9"}

DigitValue ==
    [c \in Digits |->
        CASE c = "0" -> 0 [] c = "1" -> 1 [] c = "2" -> 2 [] c = "3" -> 3
          [] c = "4" -> 4 [] c = "5" -> 5 [] c = "6" -> 6 [] c = "7" -> 7
          [] c = "8" -> 8 [] c = "9" -> 9]

\* acc * 10 + d computed modulo 2^32, without the overflow checks.
MulAddWrapping(acc, d) ==
    LET lo == acc.lo * 10 + d
        hi == acc.hi * 10 + (lo \div Half)
    IN Some([hi |-> hi % Half, lo |-> lo % Half])

\* acc * 10 + d with the overflow checks of checked_mul / checked_add:
\* None when the result does not fit 32 bits.
MulAdd(acc, d) ==
    LET lo == acc.lo * 10 + d
        hi == acc.hi * 10 + (lo \div Half)
    IN IF hi >= Half THEN None ELSE Some([hi |-> hi, lo |-> lo % Half])

RECURSIVE ParseDigits(_, _)
ParseDigits(s, acc) ==
    IF s = <<>> THEN Some(acc)
    ELSE IF Head(s) \notin Digits THEN None
    ELSE LET next == MulAdd(acc, DigitValue[Head(s)])
         IN IF next = None THEN None ELSE ParseDigits(Tail(s), next[1])

\* str::parse::<u32>: an optional leading '+', then one or more decimal
\* digits whose value fits 32 bits; anything else (the empty string, a
\* lone sign, a '-', a letter, a value above u32::MAX) is an error (None).
ParseU32(s) ==
    IF s = <<>> THEN None
    ELSE IF s = <<"+">> \/ s = <<"-">> THEN None
    ELSE IF Head(s) = "+" THEN ParseDigits(Tail(s), [hi |-> 0, lo |-> 0])
    ELSE ParseDigits(s, [hi |-> 0, lo |-> 0])

\* The two cases of MaxOccurs.
Bounded(n) == [case |-> "Bounded", n |-> n]
Unbounded(s) == [case |-> "Unbounded", s |-> s]

\* Deserialization of the untagged enum MaxOccurs { Bounded(u32),
\* Unbounded(String) }: the variants are tried in declaration order and the
\* first that accepts the value is taken.  Bounded accepts what parses as a
\* u32; Unbounded accepts every string.  None: no variant accepted it.
DeserializeMaxOccurs(value) ==
    IF ParseU32(value) # None THEN Some(Bounded(ParseU32(value)[1]))
    ELSE Some(Unbounded(value))

\* How a node type declares the maxOccurs attribute: as Option<MaxOccurs>,
\* as Option<u32>, or not at all.
MaxOccursField(type) ==
    CASE type \in {"Sequence", "Choice", "Group", "Element", "Any"} -> "MaxOccurs"
      [] type = "All" -> "u32"
      [] OTHER -> "absent"

\* deny_unknown_fields is set on every modelled struct but Schema and
\* AppInfo, where it is commented out.
DenyUnknownFields(type) == type \notin {"Schema", "AppInfo"}

\* Deserialization of the maxOccurs attribute of a node of `type` from an
\* input that carries it (attr = Some(value)) or not (attr = None) into the
\* max_occurs field: {} is an error, {f} the field value f.
DeserializeMaxOccursAttr(type, attr) ==
    IF attr = None THEN {None}
    ELSE CASE MaxOccursField(type) = "MaxOccurs" ->
                IF DeserializeMaxOccurs(attr[1]) = None THEN {}
                ELSE {Some(DeserializeMaxOccurs(attr[1])[1])}
           [] MaxOccursField(type) = "u32" ->
                IF ParseU32(attr[1]) = None THEN {}
                ELSE {Some(ParseU32(attr[1])[1])}
           [] OTHER -> IF DenyUnknownFields(type) THEN {} ELSE {None}

(***************************************************************************)
(* The attribute fields of each struct (`#[serde(rename = "@name")]`),     *)
(* with the declared type of the field: Req for a field of type T, Opt for *)
(* a field of type Option<T>.  max_occurs is declared by MaxOccursField.   *)
(***************************************************************************)
Req(name, ty) == [name |-> name, option |-> FALSE, ty |-> ty]
Opt(name, ty) == [name |-> name, option |-> TRUE, ty |-> ty]

SchemaFields ==
    {Opt("id", "ID"), Opt("xmlns", "String"),
     Opt("attributeFormDefault", "FormChoice"),
     Opt("elementFormDefault", "FormChoice"), Opt("blockDefault", "Block"),
     Opt("finalDefault", "Vec<Final>"), Req("targetNamespace", "AnyURI"),
     Opt("version", "Token"), Opt("defaultAttributes", "String"),
     Opt("xpathDefaultNamespace", "AnyURI"), Opt("minVersion", "String"),
     Opt("lang", "String")}

AttributeFields ==
    {Opt("id", "ID"), Opt("name", "NCName"), Opt("type", "QName"),
     Opt("use", "AttributeUse"), Opt("ref", "QName"),
     Opt("default", "String"), Opt("fixed", "String"),
     Opt("form", "FormChoice"), Opt("targetNamespace", "AnyURI"),
     Opt("inheritable", "bool")}

DefaultOpenContentFields ==
    {Opt("id", "ID"), Opt("mode", "OpenContentMode"),
     Opt("appliesToEmpty", "bool")}

SimpleTypeFields ==
    {Opt("id", "ID"), Opt("final", "Final"), Opt("name", "NCName")}

UnionFields == {Opt("id", "ID"), Opt("memberTypes", "Vec<QName>")}

ListFields == {Opt("id", "ID"), Opt("itemType", "QName")}

RestrictionFields == {Opt("id", "ID"), Opt("base", "QName")}

ComplexTypeFields ==
    {Opt("id", "ID"), Opt("name", "NCName"), Opt("mixed", "bool"),
     Opt("final", "Vec<Final>"), Opt("block", "Vec<Block>"),
     Opt("abstract", "bool"), Opt("type", "String"),
     Opt("default_attributes_apply", "bool")}

OpenContentFields == {Opt("id", "ID"), Opt("mode", "OpenContentMode")}

SimpleContentFields == {Opt("id", "ID")}

ComplexContentFields == {Opt("id", "ID"), Opt("mixed", "bool")}

AppInfoFields == {Opt("source", "AnyURI")}

AnnotationFields == {Opt("namespace", "String")}

DocumentationFields == {Opt("source", "String"), Opt("lang", "String")}

ExtensionFields == {Opt("id", "String"), Req("base", "QName")}

UniqueFields ==
    {Opt("id", "ID"), Req("name", "NCName"), Opt("ref", "QName")}

KeyFields == {Opt("id", "String"), Opt("name", "String")}

KeyrefFields ==
    {Opt("id", "String"), Req("name", "NCName"), Req("refer", "QName")}

SelectorFields ==
    {Opt("id", "String"), Req("xpath", "String"),
     Opt("xpathDefaultNamespace", "AnyURI")}

FieldFields ==
    {Opt("id", "ID"), Req("xpath", "String"),
     Opt("xpathDefaultNamespace", "AnyURI")}

SequenceFields == {Opt("id", "ID"), Opt("minOccurs", "u32")}

AllFields == {Opt("id", "ID"), Opt("minOccurs", "u32")}

GroupFields ==
    {Opt("id", "ID"), Opt("name", "NCName"), Opt("ref", "QName"),
     Opt("minOccurs", "u32")}

ChoiceFields == {Opt("id", "ID"), Opt("minOccurs", "u32")}

AnyFields ==
    {Opt("id", "ID"), Opt("namespace", "String"),
     Opt("notNamespace", "String"), Opt("notQName", "String"),
     Opt("processContents", "ProcessContents"), Opt("minOccurs", "u32")}

ElementFields ==
    {Opt("id", "ID"), Opt("name", "NCName"), Opt("nillable", "bool"),
     Opt("default", "String"), Opt("final", "Final"),
     Opt("block", "Vec<Block>"), Opt("fixed", "String"),
     Opt("form", "FormChoice"), Opt("abstract", "bool"),
     Opt("type", "QName"), Opt("substitutionGroup", "QName"),
     Opt("minOccurs", "u32"), Opt("ref", "QName")}

\* The struct of the totalDigits and fractionDigits facets.
DigitsFields == {Opt("id", "ID"), Opt("fixed", "bool"), Req("value", "u32")}

\* The struct of the length, minLength and maxLength facets.
LengthFields ==
    {Opt("id", "String"), Opt("fixed", "bool"), Req("value", "u32")}

Fields(type) ==
    CASE type = "Schema" -> SchemaFields
      [] type = "Attribute" -> AttributeFields
      [] type = "DefaultOpenContent" -> DefaultOpenContentFields
      [] type = "SimpleType" -> SimpleTypeFields
      [] type = "Union" -> UnionFields
      [] type = "List" -> ListFields
      [] type = "Restriction" -> RestrictionFields
      [] type = "ComplexType" -> ComplexTypeFields
      [] type = "OpenContent" -> OpenContentFields
      [] type = "SimpleContent" -> SimpleContentFields
      [] type = "ComplexContent" -> ComplexContentFields
      [] type = "AppInfo" -> AppInfoFields
      [] type = "Annotation" -> AnnotationFields
      [] type = "Documentation" -> DocumentationFields
      [] type = "Extension" -> ExtensionFields
      [] type = "Unique" -> UniqueFields
      [] type = "Key" -> KeyFields
      [] type = "Keyref" -> KeyrefFields
      [] type = "Selector" -> SelectorFields
      [] type = "Field" -> FieldFields
      [] type = "Sequence" -> SequenceFields
      [] type = "All" -> AllFields
      [] type = "Group" -> GroupFields
      [] type = "Choice" -> ChoiceFields
      [] type = "Any" -> AnyFields
      [] type = "Element" -> ElementFields
      [] type \in {"TotalDigits", "FractionDigits"} -> DigitsFields
      [] type \in {"Length", "MinLength", "MaxLength"} -> LengthFields
      [] OTHER -> {}

\* The declared types that are aliases of String (basics.rs) or String.
TextTypes == {"String", "AnyURI", "ID", "NCName", "QName", "Token"}

\* Deserialization of an attribute value into the declared type `ty`: {}
\* is an error.  A text type takes every value as it is; u32 takes what
\* str::parse accepts.  The value grammars of the other declared types
\* (bool, the enumerations, the lists) are outside the model: the inputs
\* give no value to an attribute of these types.
DeserializeValue(ty, value) ==
    CASE ty \in TextTypes -> {value}
      [] ty = "u32" ->
            IF ParseU32(value) = None THEN {} ELSE {ParseU32(value)[1]}
      [] OTHER -> {value}

\* Deserialization of the field `f` from the attributes `attrs` of the
\* input (a function from the names of the attributes present to their
\* values).  A missing attribute is None for an Option field and the error
\* `missing field` for any other.
DeserializeFieldOrDefault(f, attrs) ==
    IF f.name \in DOMAIN attrs
    THEN {IF f.option THEN Some(v) ELSE v :
             v \in DeserializeValue(f.ty, attrs[f.name])}
    ELSE IF f.option THEN {None} ELSE {<<>>}

DeserializeField(f, attrs) ==
    IF f.name \in DOMAIN attrs
    THEN {IF f.option THEN Some(v) ELSE v :
             v \in DeserializeValue(f.ty, attrs[f.name])}
    ELSE IF f.option THEN {None} ELSE {}

\* Deserialization of the attribute fields of a node of `type`: {} when an
\* attribute names no field of a struct that denies unknown fields or when
\* a field is an error, else the value of every field by attribute name.
\* An attribute that names no field of a struct that does not deny unknown
\* fields is skipped.
DeserializeFields(type, attrs) ==
    IF DenyUnknownFields(type)
          /\ \E a \in DOMAIN attrs : a \notin {f.name : f \in Fields(type)}
    THEN {}
    ELSE IF \E f \in Fields(type) : DeserializeField(f, attrs) = {}
    THEN {}
    ELSE {[n \in {f.name : f \in Fields(type)} |->
              CHOOSE x \in DeserializeField(
                  CHOOSE f \in Fields(type) : f.name = n, attrs) : TRUE]}

\* How a struct declares its `$value` field: "Vec" a Vec of its body enum,
\* "VecDefault" the same with `default`, "Option" an Option<Annotation>,
\* "none" no such field (AppInfo, whose body field is commented out),
\* "Named" an Option<Annotation> field without rename, which is bound to
\* the child whose tag is the name of the field.
BodyField(type) ==
    CASE type \in {"Schema", "OpenContent", "DefaultOpenContent",
                   "ComplexContent", "Keyref"} -> "Vec"
      [] type \in {"Any", "TotalDigits", "FractionDigits", "Length",
                   "MinLength", "MaxLength"} -> "Option"
      [] type = "AppInfo" -> "none"
      [] type \in {"Selector", "Field"} -> "Named"
      [] OTHER -> "VecDefault"

\* The name a field declared `body` has in the input under
\* rename_all = "camelCase".
BodyFieldName == "body"

\* Deserialization of the children of a struct whose Option<Annotation>
\* field is named: no child leaves it None, one child tagged with the name
\* of the field fills it, a second such child is a duplicate field, and a
\* child of any other tag is an unknown field, an error when the struct
\* denies unknown fields.
NamedBody(type, children) ==
    LET named == {i \in 1..Len(children) : children[i] = BodyFieldName}
    IN IF \/ Cardinality(named) > 1
          \/ (Cardinality(named) < Len(children) /\ DenyUnknownFields(type))
       THEN {}
       ELSE IF named = {} THEN {<<>>}
            ELSE {<<[variant |-> "Annotation", e |-> CHOOSE i \in named : TRUE]>>}

\* Deserialization of the children of a node of `type` into its body.  A
\* Vec field without `default` is the error `missing field` when the input
\* has no child.  The children of a struct without a `$value` field name no
\* field: they are an error when the struct denies unknown fields and are
\* skipped otherwise.  An Option<Annotation> body is built here from an
\* input without children only.
DeserializeChildren(type, children) ==
    CASE BodyField(type) = "Vec" ->
            IF children = <<>> THEN {}
            ELSE DeserializeBody(BodyEnum(type), children)
      [] BodyField(type) = "VecDefault" ->
            DeserializeBody(BodyEnum(type), children)
      [] BodyField(type) = "Option" ->
            IF children = <<>> THEN {<<>>} ELSE {}
      [] BodyField(type) = "Named" ->
            NamedBody(type, children)
      [] OTHER ->
            IF children # <<>> /\ DenyUnknownFields(type) THEN {}
            ELSE {<<>>}

\* The u32 a is above the u32 b.
GreaterU32(a, b) == a.hi > b.hi \/ (a.hi = b.hi /\ a.lo > b.lo)

\* Deserialization that validates the occurrence bounds: a minimum above a
\* bounded maximum is an error.
DeserializeValidated(type, input) ==
    {n \in {[type |-> type, max_occurs |-> m, fields |-> f, body |-> b] :
                m \in DeserializeMaxOccursAttr(type, input.maxOccurs),
                f \in DeserializeFields(type, input.attrs),
                b \in DeserializeChildren(type, input.children)} :
        ~(/\ "minOccurs" \in DOMAIN n.fields
          /\ n.fields["minOccurs"] # None
          /\ n.max_occurs # None
          /\ IF MaxOccursField(type) = "u32"
             THEN GreaterU32(n.fields["minOccurs"][1], n.max_occurs[1])
             ELSE /\ n.max_occurs[1].case = "Bounded"
                  /\ GreaterU32(n.fields["minOccurs"][1],
                                n.max_occurs[1].n))}

\* Deserialization of one node of `type` from its input: {} when any part
\* of it is an error, {node} otherwise.
Deserialize(type, input) ==
    {[type |-> type, max_occurs |-> m, fields |-> f, body |-> b] :
        m \in DeserializeMaxOccursAttr(type, input.maxOccurs),
        f \in DeserializeFields(type, input.attrs),
        b \in DeserializeChildren(type, input.children)}

(***************************************************************************)
(* The accessors of each node type: the method name and the variant its    *)
(* macro invocation names.                                                 *)
(***************************************************************************)
Accessor(name, variant) == [name |-> name, variant |-> variant]

\* Methods expanding element_from_body!.
SingletonAccessors(type) ==
    CASE type = "ComplexType" ->
            {Accessor("annotation", "Annotation"), Accessor("all", "All"),
             Accessor("sequence", "Sequence"),
             Accessor("any_attribute", "AnyAttribute"),
             Accessor("group", "Group"),
             Accessor("complex_content", "ComplexContent"),
             Accessor("simple_content", "SimpleContent"),
             Accessor("choice", "Choice")}
      [] type = "SimpleType" -> {Accessor("annotation", "Annotation")}
      [] type = "Restriction" ->
            {Accessor("annotation", "Annotation"),
             Accessor("simple_type", "SimpleType")}
      [] type \in {"Sequence", "Choice", "All"} ->
            {Accessor("annotation", "Annotation")}
      [] type = "Attribute" ->
            {Accessor("annotation", "Annotation"),
             Accessor("simple_type", "SimpleType")}
      [] type \in {"OpenContent", "DefaultOpenContent"} ->
            {Accessor("annotations", "Annotation"), Accessor("any", "Any")}
      [] type \in {"Union", "List", "SimpleContent", "ComplexContent", "Unique"} ->
            {Accessor("annotation", "Annotation")}
      [] type = "Extension" ->
            {Accessor("annotation", "Annotation"),
             Accessor("open_content", "OpenContent")}
      [] OTHER -> {}

\* Methods expanding elements_from_body!.
MultiAccessors(type) ==
    CASE type = "Schema" ->
            {Accessor("simple_types", "SimpleType"),
             Accessor("complex_types", "ComplexType"),
             Accessor("annotations", "Annotation"),
             Accessor("includes", "Include"),
             Accessor("imports", "Import"),
             Accessor("redefines", "Redefine"),
             Accessor("groups", "Group"),
             Accessor("attribute_groups", "AttributeGroup"),
             Accessor("attributes", "Attribute"),
             Accessor("notations", "Notation"),
             Accessor("default_open_contents", "DefaultOpenContent")}
      [] type = "ComplexType" ->
            {Accessor("asserts", "Assert"),
             Accessor("attributes", "Attribute"),
             Accessor("attribute_groups", "AttributeGroup")}
      [] type = "Restriction" -> {Accessor("asserts", "Assert")}
      [] type \in {"Union", "List"} -> {Accessor("simple_types", "SimpleType")}
      [] type = "Extension" -> {Accessor("asserts", "Assert")}
      [] OTHER -> {}

(***************************************************************************)
(* State.                                                                  *)
(*   input   the structured input handed to construction                   *)
(*   phase   "start" before construction, then "built" or "failed"         *)
(*   node    the constructed node (its type, max_occurs field and body)    *)
(*   result  what the last accessor call returned                          *)
(***************************************************************************)
VARIABLES input, phase, node, result, readers

vars == <<input, phase, node, result, readers>>

NoAttrs == [a \in {} |-> <<>>]

NoInput ==
    [type |-> "none", maxOccurs |-> None, attrs |-> NoAttrs,
     children |-> <<>>]
NoNode ==
    [type |-> "none", max_occurs |-> None, fields |-> NoAttrs, body |-> <<>>]
NoResult == [op |-> "none", kind |-> "none", variant |-> "none", val |-> <<>>]

\* The readers that share the constructed node, and the frame of a reader
\* that has made no call: `name` and `variant` are those of the accessor it
\* runs, `i` the position in the body its loop has reached, `elements` the
\* local vector of the macro and `val` what the call returned.
Readers == 1..MaxReaders
Idle ==
    [pc |-> "idle", name |-> "none", variant |-> "none", i |-> 0,
     elements |-> <<>>, val |-> <<>>]

Init ==
    /\ input = NoInput
    /\ phase = "start"
    /\ node = NoNode
    /\ result = NoResult
    /\ readers = [r \in Readers |-> Idle]

\* Construction of one node of `type` from the input `in`: one pass, which
\* either yields the node or fails and yields nothing.
Construct(type, in) ==
    /\ phase = "start"
    /\ input' = [type |-> type, maxOccurs |-> in.maxOccurs,
                 attrs |-> in.attrs, children |-> in.children]
    /\ IF Deserialize(type, in) = {}
       THEN phase' = "failed" /\ node' = NoNode
       ELSE phase' = "built" /\ node' \in Deserialize(type, in)
    /\ UNCHANGED <<result, readers>>

\* A call of an accessor on the constructed node reads the node and returns.
Returns(op, kind, variant, val) ==
    /\ result' = [op |-> op, kind |-> kind, variant |-> variant, val |-> val]
    /\ UNCHANGED <<input, phase, node, readers>>

\* The accessor unwraps what it found: absence is a panic, which ends the
\* thread that made the call.
CallSingletonUnwrap ==
    /\ phase = "built"
    /\ \E a \in SingletonAccessors(node.type) :
          IF element_from_body(node.body, a.variant) = None
          THEN phase' = "aborted" /\ UNCHANGED <<input, node, result, readers>>
          ELSE Returns(a.name, "singleton", a.variant,
                       element_from_body(node.body, a.variant))

CallSingleton ==
    /\ phase = "built"
    /\ \E a \in SingletonAccessors(node.type) :
          Returns(a.name, "singleton", a.variant,
                  element_from_body(node.body, a.variant))

CallMulti ==
    /\ phase = "built"
    /\ \E a \in MultiAccessors(node.type) :
          Returns(a.name, "multi", a.variant,
                  elements_from_body(node.body, a.variant))

CallElements ==
    /\ phase = "built"
    /\ node.type = "Schema"
    /\ Returns("elements", "multi", "Element", elements(node.body))

\* items() moves the children out of the body into the view it returns.
CallItemsDrains ==
    /\ phase = "built"
    /\ node.type \in {"Sequence", "Choice", "All"}
    /\ result' = [op |-> "items", kind |-> "particles", variant |-> "none",
                  val |-> CASE node.type = "Sequence" -> Sequence_items(node.body)
                            [] node.type = "Choice" -> Choice_items(node.body)
                            [] node.type = "All" -> All_items(node.body)]
    /\ node' = [node EXCEPT !.body = <<>>]
    /\ UNCHANGED <<input, phase, readers>>

CallItems ==
    /\ phase = "built"
    /\ node.type \in {"Sequence", "Choice", "All"}
    /\ Returns("items", "particles", "none",
               CASE node.type = "Sequence" -> Sequence_items(node.body)
                 [] node.type = "Choice" -> Choice_items(node.body)
                 [] node.type = "All" -> All_items(node.body))

CallContent ==
    /\ phase = "built"
    /\ node.type = "SimpleType"
    /\ Returns("content", "content", "none", content(node.body))

CallFacets ==
    /\ phase = "built"
    /\ node.type = "Restriction"
    /\ Returns("facets", "facets", "none", facets(node.body))

(***************************************************************************)
(* Inputs.                                                                 *)
(***************************************************************************)
\* A value every text type and u32 accept.
AValue(ty) == IF ty = "u32" THEN <<"1">> ELSE <<"u">>

\* The attributes of an input that gives a value to each attribute the
\* fields of `type` require and carries no other attribute.
RequiredAttrs(type) ==
    [a \in {f.name : f \in {g \in Fields(type) : ~g.option}} |->
        AValue((CHOOSE f \in Fields(type) : f.name = a).ty)]

\* Inputs without a maxOccurs attribute, with the attributes `attrs`, whose
\* children are any list of at most n tags among `tags`.
BodyInputs(tags, n, attrs) ==
    {[maxOccurs |-> None, attrs |-> attrs, children |-> c] :
        c \in BoundedSeq(tags, n)}

\* Every child list of at most MaxBody tags, over the tags the node type
\* accepts and a foreign one, with the required attributes.
Inputs(type) ==
    BodyInputs(Tags(BodyEnum(type)) \cup {ForeignTag}, MaxBody,
               RequiredAttrs(type))

ConstructRestriction ==
    /\ phase = "start"
    /\ \E in \in Inputs("Restriction") : Construct("Restriction", in)

ConstructSchema ==
    /\ phase = "start"
    /\ \E in \in Inputs("Schema") : Construct("Schema", in)

ConstructComplexType ==
    /\ phase = "start"
    /\ \E in \in Inputs("ComplexType") : Construct("ComplexType", in)

ConstructSimpleType ==
    /\ phase = "start"
    /\ \E in \in Inputs("SimpleType") : Construct("SimpleType", in)

\* The other node types whose accessors expand the two macros.
OtherContainers ==
    {"Attribute", "OpenContent", "DefaultOpenContent", "Union", "List",
     "SimpleContent", "ComplexContent", "Extension", "Unique"}

ConstructOther ==
    /\ phase = "start"
    /\ \E type \in OtherContainers :
          \E in \in Inputs(type) : Construct(type, in)

ConstructCompositor ==
    /\ phase = "start"
    /\ \E type \in {"Sequence", "Choice", "All"} :
          \E in \in Inputs(type) : Construct(type, in)

\* Singleton and multi extraction on a complex type, a simple type, the
\* three compositors and the other containers.
NextExtract ==
    \/ ConstructComplexType
    \/ ConstructSimpleType
    \/ ConstructCompositor
    \/ ConstructOther
    \/ CallSingleton
    \/ CallMulti

SpecExtract == Init /\ [][NextExtract]_vars

\* Multi extraction on the schema root, on a complex type and on the other
\* containers.
NextMulti ==
    \/ ConstructSchema
    \/ ConstructComplexType
    \/ ConstructOther
    \/ CallElements
    \/ CallMulti

SpecMulti == Init /\ [][NextMulti]_vars

\* Particle projection of the compositors.
NextParticles ==
    \/ ConstructCompositor
    \/ CallItems
    \/ CallSingleton

SpecParticles == Init /\ [][NextParticles]_vars

\* Content of a simple type.
NextSimpleType ==
    \/ ConstructSimpleType
    \/ CallContent
    \/ CallSingleton

SpecSimpleType == Init /\ [][NextSimpleType]_vars

\* Facet unification of a restriction.
NextRestriction ==
    \/ ConstructRestriction
    \/ CallFacets
    \/ CallMulti
    \/ CallSingleton

SpecRestriction == Init /\ [][NextRestriction]_vars

\* The characters the enumerated attribute values are made of: decimal
\* digits, the two signs and a letter.
AttrChars == {"0", "1", "7", "-", "+", "u"}

UnboundedToken == <<"u", "n", "b", "o", "u", "n", "d", "e", "d">>

\* The literals of u32::MAX and of u32::MAX + 1.
U32MaxLiteral == <<"4", "2", "9", "4", "9", "6", "7", "2", "9", "5">>
U32OverLiteral == <<"4", "2", "9", "4", "9", "6", "7", "2", "9", "6">>

\* The maxOccurs values given to construction: every non-empty string of at
\* most MaxAttrLen characters, the unbounded token and the two literals at
\* the edge of the u32 range.
MaxOccursValues ==
    (BoundedSeq(AttrChars, MaxAttrLen) \ {<<>>})
        \cup {UnboundedToken, U32MaxLiteral, U32OverLiteral}

\* The node types that declare max_occurs as Option<MaxOccurs>.
OccurrenceTypes == {"Element", "Sequence", "Choice", "Group", "Any"}

ConstructParticle ==
    /\ phase = "start"
    /\ \E type \in OccurrenceTypes :
          \E value \in MaxOccursValues :
              Construct(type, [maxOccurs |-> Some(value),
                               attrs |-> RequiredAttrs(type),
                               children |-> <<>>])

\* Construction of a particle from an input that declares maxOccurs.
NextOccurs == ConstructParticle

SpecOccurs == Init /\ [][NextOccurs]_vars

(***************************************************************************)
(* Properties of the query layer.                                          *)
(***************************************************************************)

\* The positions of the entries of `body` whose variant is in `variants`.
Positions(body, variants) == {i \in 1..Len(body) : body[i].variant \in variants}

\* The position of the k-th entry of `body` whose variant is in `variants`.
KthPosition(body, variants, k) ==
    CHOOSE i \in Positions(body, variants) :
        Cardinality({j \in Positions(body, variants) : j <= i}) = k

\* `list` holds exactly the payloads of the entries of `body` whose variant
\* is in `variants`, one per entry, in body order.
IsProjection(list, body, variants) ==
    /\ Len(list) = Cardinality(Positions(body, variants))
    /\ \A k \in 1..Len(list) : list[k] = body[KthPosition(body, variants, k)].e

\* C1: a singleton accessor returns nothing when the body holds no child of
\* its kind, that child when it holds exactly one, and nothing when it
\* holds two or more.
C1_SingletonExtraction ==
    result.kind = "singleton" =>
        LET matches == Positions(node.body, {result.variant})
        IN /\ Cardinality(matches) = 0 => result.val = None
           /\ Cardinality(matches) = 1 =>
                \E i \in matches : result.val = Some(node.body[i].e)
           /\ Cardinality(matches) >= 2 => result.val = None

\* A singleton accessor was called on a body with two children of its kind
\* and one of another kind.
C1_Witness ==
    /\ result.kind = "singleton"
    /\ Cardinality(Positions(node.body, {result.variant})) = 2
    /\ Len(node.body) = 3
    /\ result.val = None

\* C2: a multi accessor returns as many entries as the body has children of
\* its kind, the k-th entry being the k-th such child in body order, and
\* the empty list when there is none.
C2_MultiExtraction ==
    result.kind = "multi" =>
        /\ IsProjection(result.val, node.body, {result.variant})
        /\ Positions(node.body, {result.variant}) = {} => result.val = <<>>

\* A multi accessor returned two children that another child separates in
\* the body.
C2_Witness ==
    /\ result.kind = "multi"
    /\ Len(result.val) = 2
    /\ Len(node.body) = 3
    /\ node.body[2].variant # result.variant
    /\ result.val = <<node.body[1].e, node.body[3].e>>

\* C3: items() of a sequence or a choice returns one particle per child
\* that is not an annotation, the k-th particle being the k-th such child
\* in source order under the Particle case of that child's own kind.
C3_ParticleProjection ==
    (result.op = "items" /\ node.type \in {"Sequence", "Choice"}) =>
        LET kept == Positions(node.body, BodyEnum(node.type) \ {"Annotation"})
        IN /\ Len(result.val) = Cardinality(kept)
           /\ \A k \in 1..Len(result.val) :
                LET child == node.body[KthPosition(node.body,
                                 BodyEnum(node.type) \ {"Annotation"}, k)]
                IN result.val[k] = Particle(child.variant, child.e)

\* items() was called on a choice holding a nested sequence, an annotation
\* and a nested choice, in this order.
C3_Witness ==
    /\ result.op = "items"
    /\ node.type = "Choice"
    /\ Len(node.body) = 3
    /\ node.body[1].variant = "Sequence"
    /\ node.body[2].variant = "Annotation"
    /\ node.body[3].variant = "Choice"
    /\ Len(result.val) = 2

\* C4: content() of a simple type is an error exactly when the body is
\* empty or holds only annotations.
C4_ContentFails ==
    result.op = "content" =>
        (result.val.ok = FALSE <=>
            \A i \in 1..Len(node.body) : node.body[i].variant = "Annotation")

\* content() failed on a body of annotations only.
C4_Witness ==
    /\ result.op = "content"
    /\ Len(node.body) >= 2
    /\ \A i \in 1..Len(node.body) : node.body[i].variant = "Annotation"
    /\ result.val.ok = FALSE

\* C5: when the body of a simple type holds exactly one restriction, union
\* or list child, content() succeeds with that child under the case of its
\* kind, wherever the annotations are.
C5_ContentOfTheOnlyChild ==
    (/\ result.op = "content"
     /\ Cardinality(Positions(node.body, {"Restriction", "Union", "List"})) = 1) =>
        \E i \in Positions(node.body, {"Restriction", "Union", "List"}) :
            result.val = Ok(SimpleTypeContent(node.body[i].variant, node.body[i].e))

\* content() returned the union that stands between two annotations.
C5_Witness ==
    /\ result.op = "content"
    /\ Len(node.body) = 3
    /\ node.body[1].variant = "Annotation"
    /\ node.body[2].variant = "Union"
    /\ node.body[3].variant = "Annotation"
    /\ result.val.ok

\* The variants of a restriction body that bear a facet: each has a Facet
\* case of the same name.
FacetVariants ==
    {"Length", "MinLength", "MaxLength", "Pattern", "WhiteSpace", "Enumeration",
     "MinInclusive", "MaxInclusive", "MinExclusive", "MaxExclusive",
     "TotalDigits", "FractionDigits", "Assertion", "ExplicitTimezone"}

\* C6: facets() maps every facet-bearing child to the Facet case named
\* after the child's kind.
C6_FacetCase ==
    result.op = "facets" =>
        \A k \in 1..Len(result.val) :
            \A i \in 1..Len(node.body) :
                (result.val[k].e = node.body[i].e /\ node.body[i].variant \in FacetVariants)
                    => result.val[k].case = node.body[i].variant

\* C7: facets() returns one facet per facet-bearing child and none for any
\* other child: as many facets as facet-bearing children, the k-th facet
\* referring to the k-th facet-bearing child.
C7_FacetProjection ==
    result.op = "facets" =>
        IsProjection([k \in 1..Len(result.val) |-> result.val[k].e],
                     node.body, FacetVariants)

\* facets() was called on a body of one pattern, one annotation and one
\* enumeration, and returned two facets.
C7_Witness ==
    /\ result.op = "facets"
    /\ Len(node.body) = 3
    /\ node.body[1].variant = "Pattern"
    /\ node.body[2].variant = "Annotation"
    /\ node.body[3].variant = "Enumeration"
    /\ Len(result.val) = 2

\* C8: facets() holds no entry for a child that bears no facet, and
\* asserts() returns the assert children, all of them, in body order.
C8_NonFacetsSkipped ==
    /\ result.op = "facets" =>
          \A k \in 1..Len(result.val) :
              \A i \in Positions(node.body, RestrictionBody \ FacetVariants) :
                  result.val[k].e # node.body[i].e
    /\ (result.op = "asserts" /\ node.type = "Restriction") =>
          IsProjection(result.val, node.body, {"Assert"})

\* facets() returned nothing for a body of an assert, an annotation and a
\* nested simple type.
C8_Witness ==
    /\ result.op = "facets"
    /\ Len(node.body) = 3
    /\ \E i \in 1..3 : node.body[i].variant = "Assert"
    /\ \E i \in 1..3 : node.body[i].variant = "Annotation"
    /\ \E i \in 1..3 : node.body[i].variant = "SimpleType"
    /\ result.val = <<>>

(***************************************************************************)
(* Properties of occurrence bounds.                                        *)
(***************************************************************************)

\* A non-negative integer literal: one or more decimal digits.
IsNatLiteral(v) == v # <<>> /\ \A i \in 1..Len(v) : v[i] \in Digits

\* A negative integer literal: '-' and one or more decimal digits.
IsNegativeLiteral(v) == Len(v) >= 2 /\ v[1] = "-" /\ IsNatLiteral(Tail(v))

\* A numeric value: an integer literal with or without a sign.
IsNumeric(v) ==
    \/ IsNatLiteral(v)
    \/ IsNegativeLiteral(v)
    \/ (Len(v) >= 2 /\ v[1] = "+" /\ IsNatLiteral(Tail(v)))

\* A literal without its leading zeros ("0" for zero).
RECURSIVE StripZeros(_)
StripZeros(v) ==
    IF Len(v) > 1 /\ Head(v) = "0" THEN StripZeros(Tail(v)) ELSE v

\* The character of a decimal digit.
DigitChar ==
    [d \in 0..9 |-> CHOOSE c \in Digits : DigitValue[c] = d]

\* The decimal literal of the u32 [hi, lo], by repeated division by ten.
RECURSIVE Decimal(_)
Decimal(n) ==
    LET t == (n.hi % 10) * Half + n.lo
        q == [hi |-> n.hi \div 10, lo |-> t \div 10]
    IN IF q.hi = 0 /\ q.lo = 0
       THEN <<DigitChar[t % 10]>>
       ELSE Decimal(q) \o <<DigitChar[t % 10]>>

\* The maxOccurs value construction was given, when it was given one.
Declared == input.maxOccurs[1]

\* C9: construction yields the Unbounded case exactly for the literal
\* unbounded token, and Bounded(n) for every non-negative integer literal n.
C9_MaxOccursCases ==
    (phase # "start" /\ input.maxOccurs # None) =>
        /\ (/\ phase = "built"
            /\ node.max_occurs # None
            /\ node.max_occurs[1].case = "Unbounded") <=> Declared = UnboundedToken
        /\ IsNatLiteral(Declared) =>
              /\ phase = "built"
              /\ node.max_occurs # None
              /\ node.max_occurs[1].case = "Bounded"
              /\ Decimal(node.max_occurs[1].n) = StripZeros(Declared)

\* C10: a maxOccurs value that is negative, or non-numeric and not the
\* unbounded token, makes construction fail and yields no MaxOccurs value.
C10_InvalidMaxOccursFails ==
    (/\ phase # "start"
     /\ input.maxOccurs # None
     /\ \/ IsNegativeLiteral(Declared)
        \/ (~IsNumeric(Declared) /\ Declared # UnboundedToken)) =>
        /\ phase = "failed"
        /\ node.max_occurs = None

\* A restriction whose children are facets of two kinds, an annotation, a
\* simple type, an assert or a foreign child.
ConstructFacetRestriction ==
    /\ phase = "start"
    /\ \E in \in BodyInputs(
              Tags({"Pattern", "MinInclusive", "Annotation", "SimpleType",
                    "Assert"}) \cup {ForeignTag},
              MaxBody, RequiredAttrs("Restriction")) :
          Construct("Restriction", in)

\* Every query on every kind of node that has one.
NextQueries ==
    \/ ConstructSchema
    \/ ConstructComplexType
    \/ ConstructSimpleType
    \/ ConstructFacetRestriction
    \/ ConstructCompositor
    \/ ConstructOther
    \/ CallSingleton
    \/ CallMulti
    \/ CallElements
    \/ CallItems
    \/ CallContent
    \/ CallFacets

SpecQueries == Init /\ [][NextQueries]_vars

(***************************************************************************)
(* Construction of the containers.                                         *)
(***************************************************************************)
ConstructAnnotation ==
    /\ phase = "start"
    /\ \E in \in Inputs("Annotation") : Construct("Annotation", in)

\* The content of an appinfo is free: its children are any list of at most
\* MaxBody tags among those of the annotation children and the foreign one.
ConstructAppInfo ==
    /\ phase = "start"
    /\ \E in \in BodyInputs(Tags(AnnotationBody) \cup {ForeignTag}, MaxBody,
                            RequiredAttrs("AppInfo")) :
          Construct("AppInfo", in)

\* Construction of every kind of container from its children.
NextConstruct ==
    \/ ConstructSchema
    \/ ConstructComplexType
    \/ ConstructSimpleType
    \/ ConstructCompositor
    \/ ConstructOther
    \/ ConstructAnnotation
    \/ ConstructAppInfo

SpecConstruct == Init /\ [][NextConstruct]_vars

\* The node types whose attribute fields are modelled.
NodeTypes ==
    {"Schema", "Attribute", "DefaultOpenContent", "SimpleType", "Union",
     "List", "Restriction", "ComplexType", "OpenContent", "SimpleContent",
     "ComplexContent", "AppInfo", "Annotation", "Extension", "Unique",
     "Sequence", "All", "Group", "Choice", "Any", "Element", "TotalDigits",
     "FractionDigits", "Length", "MinLength", "MaxLength"}

\* An attribute name of the XSD vocabulary that none of the modelled
\* structs declares (refer is an attribute of keyref only).
ForeignAttr == "refer"

\* The declared type of the field of `type` an attribute name selects.
FieldType(type, name) == (CHOOSE f \in Fields(type) : f.name = name).ty

\* The attribute names the inputs of a node of `type` draw from: those of
\* its fields of a text type or of type u32, and the foreign one.
InputNames(type) ==
    {f.name : f \in {g \in Fields(type) : g.ty \in TextTypes \cup {"u32"}}}
        \cup {ForeignAttr}

\* Every choice of at most n attributes among those names, each with a
\* value its declared type accepts.
AttrInputs(type, n) ==
    {[a \in S |-> IF a = ForeignAttr THEN AValue("String")
                  ELSE AValue(FieldType(type, a))] :
        S \in {T \in SUBSET InputNames(type) : Cardinality(T) <= n}}

\* The children given to a node built for its attributes: none, or one
\* annotation when the body is a Vec of a body enum.
ChildInputs(type) ==
    IF BodyField(type) \in {"Vec", "VecDefault"}
    THEN {<<>>, <<"annotation">>}
    ELSE {<<>>}

ConstructAttributes ==
    /\ phase = "start"
    /\ \E type \in NodeTypes :
          \E attrs \in AttrInputs(type, MaxAttrs) :
              \E c \in ChildInputs(type) :
                  Construct(type, [maxOccurs |-> None, attrs |-> attrs,
                                   children |-> c])

\* Construction of every kind of node from its attributes.
NextAttributes == ConstructAttributes

SpecAttributes == Init /\ [][NextAttributes]_vars

(***************************************************************************)
(* Readers that share one constructed schema.  The accessors take &self    *)
(* and expand elements_from_body!, whose loop over the body is modelled    *)
(* one iteration a step, so that the loops of the readers interleave.      *)
(***************************************************************************)

\* The accessors the readers call.
ReaderAccessors ==
    {a \in MultiAccessors("Schema") : a.variant \in {"SimpleType", "Annotation"}}

\* A schema with its required attributes, whose children are any list of
\* at most MaxBody tags among simpleType, annotation and element.
ConstructShared ==
    /\ phase = "start"
    /\ \E in \in BodyInputs({"simpleType", "annotation", "element"}, MaxBody,
                            RequiredAttrs("Schema")) :
          Construct("Schema", in)

\* The reader r calls an accessor: `let mut elements = vec![]`.
ReaderCall(r) ==
    /\ phase = "built"
    /\ readers[r].pc = "idle"
    /\ \E a \in ReaderAccessors :
          readers' = [readers EXCEPT ![r] =
                          [pc |-> "loop", name |-> a.name,
                           variant |-> a.variant, i |-> 1,
                           elements |-> <<>>, val |-> <<>>]]
    /\ UNCHANGED <<input, phase, node, result>>

\* The loop takes the children out of the shared body as it visits them.
ReaderLoopTakes(r) ==
    /\ readers[r].pc = "loop"
    /\ node.body # <<>>
    /\ readers' = [readers EXCEPT
                      ![r].elements =
                          IF Head(node.body).variant = readers[r].variant
                          THEN Append(@, Head(node.body).e) ELSE @]
    /\ node' = [node EXCEPT !.body = Tail(@)]
    /\ UNCHANGED <<input, phase, result>>

\* One iteration of `for element in &$self.body`: push the payload when the
\* child is of the variant.
ReaderLoop(r) ==
    /\ readers[r].pc = "loop"
    /\ readers[r].i <= Len(node.body)
    /\ readers' = [readers EXCEPT
                      ![r].elements =
                          IF node.body[readers[r].i].variant = readers[r].variant
                          THEN Append(@, node.body[readers[r].i].e) ELSE @,
                      ![r].i = @ + 1]
    /\ UNCHANGED <<input, phase, node, result>>

\* The loop is over: the macro evaluates to `elements`.
ReaderReturn(r) ==
    /\ readers[r].pc = "loop"
    /\ readers[r].i > Len(node.body)
    /\ readers' = [readers EXCEPT ![r].pc = "done",
                                  ![r].val = readers[r].elements]
    /\ UNCHANGED <<input, phase, node, result>>

NextReaders ==
    \/ ConstructShared
    \/ \E r \in Readers : ReaderCall(r)
    \/ \E r \in Readers : ReaderLoop(r)
    \/ \E r \in Readers : ReaderReturn(r)

SpecReaders == Init /\ [][NextReaders]_vars

(***************************************************************************)
(* Construction of selector and field, and their annotation accessor.      *)
(***************************************************************************)

\* A selector or a field without attributes, with xpath, or with xpath and
\* id, whose children are any list of at most MaxBody tags among
\* annotation, the name of the body field and a foreign one.
ConstructPath ==
    /\ phase = "start"
    /\ \E type \in {"Selector", "Field"} :
          \E attrs \in {NoAttrs, RequiredAttrs(type),
                        [a \in {"xpath", "id"} |-> AValue("String")]} :
             \E in \in BodyInputs({"annotation", BodyFieldName, ForeignTag},
                                  MaxBody, attrs) :
                Construct(type, in)

\* Selector::annotation and Field::annotation: self.body.as_ref().
CallAnnotation ==
    /\ phase = "built"
    /\ node.type \in {"Selector", "Field"}
    /\ Returns("annotation", "singleton", "Annotation",
               IF node.body = <<>> THEN None ELSE Some(node.body[1].e))

NextPath ==
    \/ ConstructPath
    \/ CallAnnotation

SpecPath == Init /\ [][NextPath]_vars

(***************************************************************************)
(* Construction of the identity constraints.                               *)
(***************************************************************************)

IdentityConstraints == {"Unique", "Key", "Keyref"}

\* An identity constraint with its required attributes, whose children are
\* any list of at most MaxBody tags among annotation, selector, field and a
\* foreign one.
ConstructIdentity ==
    /\ phase = "start"
    /\ \E type \in IdentityConstraints :
          \E in \in Inputs(type) : Construct(type, in)

NextIdentity ==
    \/ ConstructIdentity
    \/ CallSingleton

SpecIdentity == Init /\ [][NextIdentity]_vars

(***************************************************************************)
(* Construction of an all.                                                 *)
(***************************************************************************)

\* The tags of the compositors, which the grammar forbids inside an all.
NestedCompositorTags == {"all", "choice", "sequence"}

\* An all whose children are any list of at most MaxBody tags among those
\* AllBody accepts and those of the compositors.
ConstructAll ==
    /\ phase = "start"
    /\ \E in \in BodyInputs(Tags(AllBody) \cup NestedCompositorTags, MaxBody,
                            RequiredAttrs("All")) :
          Construct("All", in)

NextAll ==
    \/ ConstructAll
    \/ CallItems
    \/ CallSingleton

SpecAll == Init /\ [][NextAll]_vars

(***************************************************************************)
(* Construction of the nodes with numeric attributes.                      *)
(***************************************************************************)

\* The particles: the node types that declare min_occurs and max_occurs.
ParticleTypes == {"Element", "Sequence", "Choice", "Group", "Any", "All"}

\* The facets whose value is declared u32 (structs Digits and Length).
NumericFacets ==
    {"TotalDigits", "FractionDigits", "Length", "MinLength", "MaxLength"}

\* The values given to a numeric attribute: those given to maxOccurs.
NumericValues == MaxOccursValues

\* The attributes `others` and the attribute `name`, absent (None) or with
\* a value (Some).
WithAttr(others, name, attr) ==
    IF attr = None THEN others
    ELSE [a \in DOMAIN others \cup {name} |->
             IF a = name THEN attr[1] ELSE others[a]]

\* A particle with or without minOccurs and with or without maxOccurs.
ConstructOccurrence ==
    /\ phase = "start"
    /\ \E type \in ParticleTypes :
          \E min \in {None} \cup {Some(v) : v \in NumericValues} :
              \E max \in {None, Some(<<"1">>), Some(<<"7">>),
                          Some(UnboundedToken)} :
                  Construct(type,
                            [maxOccurs |-> max,
                             attrs |-> WithAttr(NoAttrs, "minOccurs", min),
                             children |-> <<>>])

\* A numeric facet with or without its value attribute.
ConstructNumericFacet ==
    /\ phase = "start"
    /\ \E type \in NumericFacets :
          \E value \in {None} \cup {Some(v) : v \in NumericValues} :
              Construct(type,
                        [maxOccurs |-> None,
                         attrs |-> WithAttr(NoAttrs, "value", value),
                         children |-> <<>>])

NextNumeric ==
    \/ ConstructOccurrence
    \/ ConstructNumericFacet

SpecNumeric == Init /\ [][NextNumeric]_vars

(***************************************************************************)
(* Construction of a document.  An input document is a tree: a node has a  *)
(* tag, attributes and children that are nodes.                            *)
(***************************************************************************)

\* The input of one node of a tree, its children taken by their tags.
Flat(tree) ==
    [maxOccurs |-> None, attrs |-> tree.attrs,
     children |-> [i \in 1..Len(tree.children) |-> tree.children[i].tag]]

\* The struct a child of a node of `type` is deserialized into: the payload
\* of the variant its tag selects, which has the name of the variant for
\* every variant of SchemaBody, SimpleTypeBody and AnnotationBody.
PayloadType(type, tag) == CHOOSE v \in VariantsOf(BodyEnum(type), tag) : TRUE

\* Deserialization of a node of `type` and of everything below it: the
\* node's own fields and body, and every child in turn; the first error
\* ends it ({}).  The node built holds in `nodes` the node built from each
\* child, which is the payload of the body entry at the same position.
RECURSIVE DeserializeTree(_, _)
DeserializeTree(type, tree) ==
    IF Deserialize(type, Flat(tree)) = {} THEN {}
    ELSE IF \E i \in 1..Len(tree.children) :
               DeserializeTree(PayloadType(type, tree.children[i].tag),
                               tree.children[i]) = {}
    THEN {}
    ELSE {[type |-> n.type, max_occurs |-> n.max_occurs,
           fields |-> n.fields, body |-> n.body,
           nodes |-> [i \in 1..Len(tree.children) |->
                        CHOOSE c \in DeserializeTree(
                            PayloadType(type, tree.children[i].tag),
                            tree.children[i]) : TRUE]] :
             n \in Deserialize(type, Flat(tree))}

\* Schema::default(): every attribute absent, the text of the target
\* namespace empty, no body.
DefaultSchema ==
    [type |-> "Schema", max_occurs |-> None,
     fields |-> [n \in {f.name : f \in SchemaFields} |->
                    IF n = "targetNamespace" THEN <<>> ELSE None],
     body |-> <<>>, nodes |-> <<>>]

FromReaderOrDefault(tree) ==
    /\ input' = [type |-> "Schema", maxOccurs |-> None, attrs |-> tree.attrs,
                 children |-> tree.children]
    /\ phase' = "built"
    /\ IF DeserializeTree("Schema", tree) = {}
       THEN node' = DefaultSchema
       ELSE node' \in DeserializeTree("Schema", tree)
    /\ UNCHANGED <<result, readers>>

\* Schema::from_reader: deserialize the document into a Schema and unwrap
\* the result, which returns the Schema or panics and returns nothing.
from_reader(tree) ==
    /\ input' = [type |-> "Schema", maxOccurs |-> None, attrs |-> tree.attrs,
                 children |-> tree.children]
    /\ IF DeserializeTree("Schema", tree) = {}
       THEN phase' = "failed" /\ node' = NoNode
       ELSE phase' = "built" /\ node' \in DeserializeTree("Schema", tree)
    /\ UNCHANGED <<result, readers>>

\* The attributes given to a node below the root, whose type requires
\* none: no attribute, or the foreign one.
TreeAttrs == {NoAttrs, [a \in {ForeignAttr} |-> AValue("String")]}

\* The nodes two levels below the root: no children.
Leaves ==
    {[tag |-> t, attrs |-> a, children |-> <<>>] :
        t \in {"annotation", "documentation", "restriction", ForeignTag},
        a \in TreeAttrs}

\* The nodes one level below the root: at most one child.
Subtrees ==
    {[tag |-> t, attrs |-> a, children |-> c] :
        t \in {"annotation", "simpleType", ForeignTag},
        a \in TreeAttrs,
        c \in BoundedSeq(Leaves, 1)}

\* The documents: a schema root with at most MaxWidth children.
Documents ==
    {[tag |-> "schema", attrs |-> RequiredAttrs("Schema"), children |-> c] :
        c \in BoundedSeq(Subtrees, MaxWidth)}

FromReader ==
    /\ phase = "start"
    /\ \E tree \in Documents : from_reader(tree)

CallContentOfChildTakes ==
    /\ phase = "built"
    /\ \E i \in DOMAIN node.nodes :
          /\ node.nodes[i].type = "SimpleType"
          /\ result' = [op |-> "content", kind |-> "content",
                        variant |-> "none",
                        val |-> content(node.nodes[i].body)]
          /\ node' = [node EXCEPT !.nodes[i].body = <<>>]
          /\ UNCHANGED <<input, phase, readers>>

\* A call of content() on a simple type among the children of the root.
CallContentOfChild ==
    /\ phase = "built"
    /\ \E i \in DOMAIN node.nodes :
          /\ node.nodes[i].type = "SimpleType"
          /\ Returns("content", "content", "none",
                     content(node.nodes[i].body))

\* A call of a singleton accessor on a child of the root.
CallSingletonOfChild ==
    /\ phase = "built"
    /\ \E i \in DOMAIN node.nodes :
          \E a \in SingletonAccessors(node.nodes[i].type) :
              Returns(a.name, "singleton", a.variant,
                      element_from_body(node.nodes[i].body, a.variant))

\* Construction of a schema from a document, and queries on the root and
\* on its children.
NextFromReader ==
    \/ FromReader
    \/ CallMulti
    \/ CallElements
    \/ CallContentOfChild
    \/ CallSingletonOfChild

SpecFromReader == Init /\ [][NextFromReader]_vars

(***************************************************************************)
(* Particle trees, and a traversal that calls items() on the root and on   *)
(* every Sequence and Choice particle a call returns.                      *)
(***************************************************************************)

\* The particles two levels below the root: no children.
ParticleLeaves ==
    {[tag |-> t, attrs |-> NoAttrs, children |-> <<>>] :
        t \in {"element", "any", "annotation", "sequence", "choice"}}

\* The particles one level below the root: an element, a wildcard or an
\* annotation, or a compositor with at most one child.
ParticleSubtrees ==
    {[tag |-> t, attrs |-> NoAttrs, children |-> <<>>] :
        t \in {"element", "any", "annotation"}}
    \cup {[tag |-> t, attrs |-> NoAttrs, children |-> c] :
            t \in {"sequence", "choice"}, c \in BoundedSeq(ParticleLeaves, 1)}

\* The particle trees: a sequence or a choice with at most MaxWidth
\* children.
ParticleTrees ==
    {[tag |-> t, attrs |-> NoAttrs, children |-> c] :
        t \in {"sequence", "choice"}, c \in BoundedSeq(ParticleSubtrees, MaxWidth)}

\* The struct the root of a particle tree is deserialized into.
RootType(tree) == IF tree.tag = "sequence" THEN "Sequence" ELSE "Choice"

ConstructParticleTree ==
    /\ phase = "start"
    /\ \E tree \in ParticleTrees :
          /\ input' = [type |-> RootType(tree), maxOccurs |-> None,
                       attrs |-> tree.attrs, children |-> tree.children]
          /\ IF DeserializeTree(RootType(tree), tree) = {}
             THEN phase' = "failed" /\ node' = NoNode
             ELSE /\ phase' = "built"
                  /\ node' \in DeserializeTree(RootType(tree), tree)
    /\ UNCHANGED <<result, readers>>

\* The node at the end of the path p of child positions below n.
RECURSIVE NodeAt(_, _)
NodeAt(n, p) == IF p = <<>> THEN n ELSE NodeAt(n.nodes[Head(p)], Tail(p))

\* items() of the compositor that a particle of `case` refers to.
ItemsOf(case, n) ==
    IF case = "Sequence" THEN Sequence_items(n.body) ELSE Choice_items(n.body)

\* The traversal starts with the root pending and nothing visited.
TraverseStart ==
    /\ phase = "built"
    /\ node.type \in {"Sequence", "Choice"}
    /\ result.op = "none"
    /\ Returns("traverse", "particles", "none",
               [pending |-> <<[case |-> node.type, path |-> <<>>]>>,
                visited |-> <<>>, called |-> FALSE, at |-> <<>>,
                items |-> <<>>])

\* One step of the traversal: items() is called on the first compositor
\* pending; every particle it returns is visited, and those that are a
\* Sequence or a Choice become pending in turn.
TraverseStep ==
    /\ result.op = "traverse"
    /\ result.val.pending # <<>>
    /\ LET next == Head(result.val.pending)
           items == ItemsOf(next.case, NodeAt(node, next.path))
           found == [k \in 1..Len(items) |->
                        [case |-> items[k].case,
                         path |-> Append(next.path, items[k].e)]]
       IN Returns("traverse", "particles", "none",
                  [pending |-> Tail(result.val.pending) \o
                                 SelectSeq(found, LAMBDA f :
                                     f.case \in {"Sequence", "Choice"}),
                   visited |-> result.val.visited \o
                                 [k \in 1..Len(found) |-> found[k].path],
                   called |-> TRUE,
                   at |-> next.path,
                   items |-> items])

NextTraverse ==
    \/ ConstructParticleTree
    \/ TraverseStart
    \/ TraverseStep

\* A traversal that has a compositor pending goes on.
SpecTraverse ==
    Init /\ [][NextTraverse]_vars /\ WF_vars(TraverseStep)

(***************************************************************************)
(* Properties of construction.                                             *)
(***************************************************************************)

\* The input children whose tag is outside the variant set of the
\* container under construction.
UnknownChildren ==
    {i \in 1..Len(input.children) :
        input.children[i] \notin Tags(BodyEnum(input.type))}

\* C11: an input child whose tag is outside the container's permitted
\* variant set makes construction fail, and a constructed container has no
\* fewer body entries than its input had children.
C11_UnknownChildFails ==
    /\ (phase # "start" /\ UnknownChildren # {}) => phase = "failed"
    /\ phase = "built" => Len(node.body) >= Len(input.children)

\* The input attributes that name no field of the node type under
\* construction.
UnknownAttrs ==
    {a \in DOMAIN input.attrs : a \notin {f.name : f \in Fields(input.type)}}

\* C12: an input node carrying an attribute outside the fixed attribute set
\* of its node type makes construction fail, for every node type, the
\* schema root included.
C12_UnknownAttributeFails ==
    (phase # "start" /\ UnknownAttrs # {}) => phase = "failed"

(***************************************************************************)
(* Properties of the content accessors of a complex type.                  *)
(***************************************************************************)

\* The singleton accessor of the constructed node for `variant` returns a
\* present result.
Present(variant) == element_from_body(node.body, variant) # None

\* The kinds of child that define the content model of a complex type.
CompositionKinds == {"All", "Sequence", "Choice", "Group"}

NodeFails(type, tree) == Deserialize(type, Flat(tree)) = {}

\* The children of `tree` that are deserialized as children of a node of
\* `type`: those whose tag selects a variant.
KnownChildren(type, tree) ==
    {i \in 1..Len(tree.children) :
        VariantsOf(BodyEnum(type), tree.children[i].tag) # {}}

\* Some node of the input document fails by itself: the root, one of its
\* children or one of their children.
SomeNodeFails ==
    \/ NodeFails("Schema", input)
    \/ \E i \in KnownChildren("Schema", input) :
          LET child == input.children[i]
              type == PayloadType("Schema", child.tag)
          IN \/ NodeFails(type, child)
             \/ \E j \in KnownChildren(type, child) :
                   NodeFails(PayloadType(type, child.children[j].tag),
                             child.children[j])

\* C14: when the construction of a node at any depth fails, from_reader
\* returns no Schema at all.
C14_FailFast ==
    (phase # "start" /\ SomeNodeFails) => (phase = "failed" /\ node = NoNode)

\* The construction of a child of a child of the root failed, while the
\* root and its children do not fail by themselves.
C14_Witness ==
    /\ phase = "failed"
    /\ ~NodeFails("Schema", input)
    /\ \A i \in 1..Len(input.children) :
          ~NodeFails(PayloadType("Schema", input.children[i].tag),
                     input.children[i])
    /\ SomeNodeFails

(***************************************************************************)
(* Properties of the queries as operations.                                *)
(***************************************************************************)

\* The payloads of the body of the constructed node.
Payloads == {node.body[i].e : i \in 1..Len(node.body)}

\* C15: every extraction operation other than content() is total: on a
\* constructed node it can be called whatever the body holds, the call
\* does not abort, and it returns an absent or present child (singleton)
\* or a possibly empty list of children of the body (the others).
C15_ExtractionTotal ==
    /\ phase \in {"start", "built", "failed"}
    /\ (phase = "built" /\ SingletonAccessors(node.type) # {})
          => ENABLED CallSingleton
    /\ (phase = "built" /\ MultiAccessors(node.type) # {})
          => ENABLED CallMulti
    /\ (phase = "built" /\ node.type = "Schema") => ENABLED CallElements
    /\ (phase = "built" /\ node.type \in {"Sequence", "Choice", "All"})
          => ENABLED CallItems
    /\ (phase = "built" /\ node.type = "Restriction") => ENABLED CallFacets
    /\ result.kind = "singleton" =>
          (result.val = None \/ \E e \in Payloads : result.val = Some(e))
    /\ result.kind = "multi" =>
          \A k \in 1..Len(result.val) : result.val[k] \in Payloads
    /\ result.kind \in {"particles", "facets"} =>
          \A k \in 1..Len(result.val) : result.val[k].e \in Payloads

\* A singleton accessor returned absent on a body that holds two children
\* of its kind and a child of another kind.
C15_Witness ==
    /\ phase = "built"
    /\ result.kind = "singleton"
    /\ result.val = None
    /\ Cardinality(Positions(node.body, {result.variant})) = 2
    /\ Len(node.body) = 3

\* A query reported absence, ambiguity or missing content: content()
\* returned an error or a singleton accessor returned None.
Reports(r) ==
    \/ (r.op = "content" /\ ~r.val.ok)
    \/ (r.kind = "singleton" /\ r.val = None)

\* What every accessor of the node `n` returns.
QueriesOn(n) ==
    [singleton |-> [a \in SingletonAccessors(n.type) |->
                       element_from_body(n.body, a.variant)],
     multi |-> [a \in MultiAccessors(n.type) |->
                   elements_from_body(n.body, a.variant)],
     elements |-> IF n.type = "Schema" THEN elements(n.body) ELSE <<>>,
     content |-> IF n.type = "SimpleType" THEN Some(content(n.body))
                 ELSE None]

\* What every accessor returns on the root and on each of its children.
AllQueries ==
    [root |-> QueriesOn(node),
     children |-> [i \in DOMAIN node.nodes |-> QueriesOn(node.nodes[i])]]

\* C16: a query that reports absent, ambiguous or missing content leaves
\* every other query unaffected: every accessor of the node it was made
\* on, of its siblings and of its parent returns after it what it returned
\* before.
C16_FailureIsLocal ==
    [][(phase = "built" /\ Reports(result')) => AllQueries' = AllQueries]_vars

\* content() failed on a simple type without content whose parent holds a
\* second child.
C16_Witness ==
    /\ phase = "built"
    /\ result.op = "content"
    /\ ~result.val.ok
    /\ Len(node.body) = 2
    /\ \E i \in DOMAIN node.nodes :
          /\ node.nodes[i].type = "SimpleType"
          /\ Len(node.nodes[i].body) = 1

\* The step calls the accessor that the previous call called.
SameAccessorAgain ==
    /\ result.op # "none"
    /\ result'.op = result.op
    /\ result'.kind = result.kind
    /\ result'.variant = result.variant

\* C17: after construction no query changes a body list or an attribute of
\* the node, and an accessor called again returns what it returned before.
C17_ReadOnly ==
    [][phase = "built" =>
          /\ node' = node
          /\ phase' = phase
          /\ SameAccessorAgain => result'.val = result.val]_vars

\* items() returned the two particles of a compositor of three children,
\* which the node still holds.
C17_Witness ==
    /\ phase = "built"
    /\ result.op = "items"
    /\ Len(result.val) = 2
    /\ Len(node.body) = 3

(***************************************************************************)
(* Properties of the numeric attributes.                                   *)
(***************************************************************************)

\* The u32 1.
One == [hi |-> 0, lo |-> 1]

\* C18: a particle built from an input that declares no minOccurs has the
\* minimum occurrence 1, and one built from an input that declares no
\* maxOccurs has the maximum occurrence Bounded 1 (1 for all, whose maximum
\* is a plain number).
C18_OccurrenceDefaults ==
    (phase = "built" /\ node.type \in ParticleTypes) =>
        /\ "minOccurs" \notin DOMAIN input.attrs =>
              node.fields["minOccurs"] = Some(One)
        /\ input.maxOccurs = None =>
              node.max_occurs \in {Some(Bounded(One)), Some(One)}

(***************************************************************************)
(* Properties of the attributes of the schema root.                        *)
(***************************************************************************)

\* C19: a schema input without a targetNamespace attribute fails
\* construction; the absence of any other schema attribute does not (a
\* root that has its targetNamespace and a child is constructed) and the
\* absent attribute is stored as absent.
C19_TargetNamespaceRequired ==
    (phase # "start" /\ input.type = "Schema") =>
        /\ "targetNamespace" \notin DOMAIN input.attrs => phase = "failed"
        /\ ("targetNamespace" \in DOMAIN input.attrs /\ input.children # <<>>)
              => /\ phase = "built"
                 /\ \A f \in SchemaFields :
                       f.name \notin DOMAIN input.attrs
                           => node.fields[f.name] = None

\* A schema was constructed from a root whose only attribute is the
\* targetNamespace.
C19_Witness ==
    /\ phase = "built"
    /\ node.type = "Schema"
    /\ DOMAIN input.attrs = {"targetNamespace"}
    /\ node.fields["version"] = None
    /\ node.fields["targetNamespace"] = input.attrs["targetNamespace"]

\* The numeric attribute of the node under construction and the value the
\* input gives it.
NumericAttr == IF input.type \in NumericFacets THEN "value" ELSE "minOccurs"

Given == input.attrs[NumericAttr]

\* The number the constructed node stores for it.
Stored ==
    IF node.type \in NumericFacets THEN node.fields["value"]
    ELSE node.fields["minOccurs"][1]

\* A literal without its plus sign.
Unsigned(v) == IF v # <<>> /\ Head(v) = "+" THEN Tail(v) ELSE v

\* An integer literal without a minus sign.
IsNonNegativeLiteral(v) == IsNatLiteral(Unsigned(v))

\* The literal `a` of a non-negative integer, without leading zeros,
\* denotes a number above the one of the literal `b`.
Above(a, b) ==
    \/ Len(a) > Len(b)
    \/ /\ Len(a) = Len(b)
       /\ \E i \in 1..Len(a) :
             /\ DigitValue[a[i]] > DigitValue[b[i]]
             /\ \A j \in 1..(i - 1) : a[j] = b[j]

\* A non-negative integer literal above u32::MAX.
AboveU32(v) ==
    IsNonNegativeLiteral(v) /\ Above(StripZeros(Unsigned(v)), U32MaxLiteral)

\* The maxOccurs attribute of the input, if it has one, is accepted.
MaxOccursAccepted ==
    DeserializeMaxOccursAttr(input.type, input.maxOccurs) # {}

\* C20: a minOccurs attribute, or a value attribute of a length,
\* minLength, maxLength, totalDigits or fractionDigits facet, that is
\* non-numeric, negative (an integer literal with a minus sign) or above
\* 2^32 - 1 makes the construction of its node fail; any other value is
\* stored as the number it denotes (in a node whose maxOccurs is accepted).
C20_NumericAttributes ==
    (/\ phase # "start"
     /\ input.type \in ParticleTypes \cup NumericFacets
     /\ NumericAttr \in DOMAIN input.attrs) =>
        /\ (~IsNumeric(Given) \/ IsNegativeLiteral(Given) \/ AboveU32(Given))
              => phase = "failed"
        /\ (IsNonNegativeLiteral(Given) /\ ~AboveU32(Given)
                /\ MaxOccursAccepted)
              => /\ phase = "built"
                 /\ Decimal(Stored) = StripZeros(Unsigned(Given))

\* A length facet was constructed from the value 4294967295 and stores it.
C20_Witness ==
    /\ phase = "built"
    /\ node.type = "Length"
    /\ Given = U32MaxLiteral
    /\ Decimal(Stored) = U32MaxLiteral

(***************************************************************************)
(* Properties of the occurrence bounds of a particle.                      *)
(***************************************************************************)

\* The minOccurs and maxOccurs values the input declares.
DeclaredMin == input.attrs["minOccurs"]

DeclaredMax == input.maxOccurs[1]

\* The node stores the numbers the literals `min` and `max` denote: the
\* minimum in min_occurs, the maximum in max_occurs (a u32 for all,
\* Bounded(u32) for the other particles).
StoresBounds(min, max) ==
    /\ node.fields["minOccurs"] # None
    /\ Decimal(node.fields["minOccurs"][1]) = StripZeros(min)
    /\ node.max_occurs # None
    /\ IF node.type = "All"
       THEN Decimal(node.max_occurs[1]) = StripZeros(max)
       ELSE /\ node.max_occurs[1].case = "Bounded"
            /\ Decimal(node.max_occurs[1].n) = StripZeros(max)

\* The input declares on a particle two non-negative integers, the minimum
\* above the maximum.
MinAboveMax ==
    /\ phase # "start"
    /\ input.type \in ParticleTypes
    /\ "minOccurs" \in DOMAIN input.attrs
    /\ input.maxOccurs # None
    /\ IsNatLiteral(DeclaredMin)
    /\ IsNatLiteral(DeclaredMax)
    /\ Above(StripZeros(DeclaredMin), StripZeros(DeclaredMax))

OutsideZeroOne(v) == IsNatLiteral(v) /\ StripZeros(v) \notin {<<"0">>, <<"1">>}

\* C22: an all whose input declares a minOccurs or a maxOccurs outside
\* {0, 1} is constructed and stores the declared values, for every
\* non-negative integer and, as maxOccurs, the unbounded token.
C22_AllStoresDeclaredBounds ==
    (/\ phase # "start"
     /\ input.type = "All"
     /\ "minOccurs" \in DOMAIN input.attrs => IsNatLiteral(DeclaredMin)
     /\ input.maxOccurs # None
     /\ IsNatLiteral(DeclaredMax) \/ DeclaredMax = UnboundedToken
     /\ \/ ("minOccurs" \in DOMAIN input.attrs /\ OutsideZeroOne(DeclaredMin))
        \/ OutsideZeroOne(DeclaredMax)
        \/ DeclaredMax = UnboundedToken) =>
        /\ phase = "built"
        /\ "minOccurs" \in DOMAIN input.attrs =>
              /\ node.fields["minOccurs"] # None
              /\ Decimal(node.fields["minOccurs"][1]) = StripZeros(DeclaredMin)
        /\ node.max_occurs # None
        /\ IsNatLiteral(DeclaredMax) =>
              Decimal(node.max_occurs[1]) = StripZeros(DeclaredMax)

(***************************************************************************)
(* Properties of an all.                                                   *)
(***************************************************************************)

\* C23: an all holds only annotation, element, any and group children: an
\* input all with a nested all, choice or sequence child fails
\* construction, and items() returns only Element, Any and Group
\* particles, one per child that is not an annotation, each under the case
\* of its child.
C23_AllChildren ==
    (phase # "start" /\ input.type = "All") =>
        /\ (\E i \in 1..Len(input.children) :
                input.children[i] \in NestedCompositorTags)
              => phase = "failed"
        /\ phase = "built" =>
              \A i \in 1..Len(node.body) :
                  node.body[i].variant \in
                      {"Annotation", "Element", "Any", "Group"}
        /\ result.op = "items" =>
              /\ IsProjection([k \in 1..Len(result.val) |-> result.val[k].e],
                              node.body, {"Element", "Any", "Group"})
              /\ \A k \in 1..Len(result.val) :
                    /\ result.val[k].case \in {"Element", "Any", "Group"}
                    /\ \E i \in 1..Len(node.body) :
                          /\ node.body[i].e = result.val[k].e
                          /\ node.body[i].variant = result.val[k].case

\* items() was called on an all holding a group, an annotation and an
\* element, and returned two particles.
C23_Witness ==
    /\ result.op = "items"
    /\ node.type = "All"
    /\ Len(node.body) = 3
    /\ node.body[1].variant = "Group"
    /\ node.body[2].variant = "Annotation"
    /\ node.body[3].variant = "Element"
    /\ Len(result.val) = 2

(***************************************************************************)
(* Properties of the identity constraints.                                 *)
(***************************************************************************)

\* The number of children of the body under `variant`.
Count(body, variant) == Cardinality(Positions(body, {variant}))

\* C24: every successfully constructed identity constraint (Unique, Key,
\* Keyref) owns exactly one Selector and at least one Field.
C24_OneSelectorSomeField ==
    (phase = "built" /\ node.type \in IdentityConstraints) =>
        /\ Count(node.body, "Selector") = 1
        /\ Count(node.body, "Field") >= 1

(***************************************************************************)
(* Properties of concurrent readers.                                       *)
(***************************************************************************)

\* C25: readers that query one constructed schema concurrently, in any
\* interleaving of the iterations of their loops, each obtain what their
\* query returns when it runs alone, and the node never differs from the
\* constructed one.
C25_ReadersIndependent ==
    (phase = "built" /\ node.type = "Schema") =>
        /\ node \in Deserialize("Schema", input)
        /\ \A r \in Readers :
              readers[r].pc = "done" =>
                  readers[r].val =
                      elements_from_body(
                          (CHOOSE n \in Deserialize("Schema", input) : TRUE).body,
                          readers[r].variant)

\* Every reader has returned a list that is not empty, and two of them
\* called different accessors on the shared schema.
C25_Witness ==
    /\ phase = "built"
    /\ \A r \in Readers : readers[r].pc = "done" /\ readers[r].val # <<>>
    /\ \E r, q \in Readers : readers[r].variant # readers[q].variant

(***************************************************************************)
(* Properties of selector and field.                                       *)
(***************************************************************************)

\* C26: a selector or field input node that carries an annotation child is
\* constructed successfully, and annotation() then returns that
\* annotation; annotation() returns absent only when the node has no
\* annotation child.
C26_PathAnnotation ==
    (phase # "start" /\ input.type \in {"Selector", "Field"}) =>
        /\ (input.children = <<"annotation">> /\ "xpath" \in DOMAIN input.attrs)
              => phase = "built"
        /\ (result.op = "annotation" /\ input.children = <<"annotation">>)
              => result.val = Some(1)
        /\ (result.op = "annotation" /\ result.val = None)
              => \A i \in 1..Len(input.children) :
                     input.children[i] # "annotation"

(***************************************************************************)
(* Properties of a simple type with several content children.              *)
(***************************************************************************)

\* C27: when the body of a simple type holds two or more restriction, union
\* or list children, content() does not fail and returns the first such
\* child in body order, under the case of its kind.
C27_ContentOfTheFirstChild ==
    (/\ result.op = "content"
     /\ Cardinality(Positions(node.body, {"Restriction", "Union", "List"})) >= 2) =>
        LET first == KthPosition(node.body, {"Restriction", "Union", "List"}, 1)
        IN /\ result.val.ok
           /\ result.val = Ok(SimpleTypeContent(node.body[first].variant,
                                                node.body[first].e))

\* content() returned the list that stands after an annotation and before
\* a restriction.
C27_Witness ==
    /\ result.op = "content"
    /\ Len(node.body) = 3
    /\ node.body[1].variant = "Annotation"
    /\ node.body[2].variant = "List"
    /\ node.body[3].variant = "Restriction"
    /\ result.val = Ok(SimpleTypeContent("List", 2))

(***************************************************************************)
(* Agreement of singleton and multi extraction.                            *)
(***************************************************************************)

\* The body without its children of the other kinds.
OfKind(body, variant) == SelectSeq(body, LAMBDA c : c.variant = variant)

\* C28: singleton extraction returns a present child x if and only if
\* multi extraction of the same kind over the same body returns the
\* one-element list of x, and the result of either is the one it has on the
\* body without its children of the other kinds.
C28_SingletonAgreesWithMulti ==
    /\ result.kind = "singleton" =>
          /\ \A i \in 1..Len(node.body) :
                result.val = Some(node.body[i].e) <=>
                    elements_from_body(node.body, result.variant)
                        = <<node.body[i].e>>
          /\ (result.val = None) <=>
                Len(elements_from_body(node.body, result.variant)) # 1
          /\ result.val =
                element_from_body(OfKind(node.body, result.variant),
                                  result.variant)
    /\ (result.kind = "multi" /\ result.op # "elements") =>
          /\ \A i \in 1..Len(node.body) :
                result.val = <<node.body[i].e>> <=>
                    element_from_body(node.body, result.variant)
                        = Some(node.body[i].e)
          /\ result.val =
                elements_from_body(OfKind(node.body, result.variant),
                                   result.variant)

\* Singleton extraction returned the one child of its kind, which stands
\* between children of two other kinds.
C28_Witness ==
    /\ result.kind = "singleton"
    /\ Len(node.body) = 3
    /\ node.body[2].variant = result.variant
    /\ node.body[1].variant # result.variant
    /\ node.body[3].variant # result.variant
    /\ node.body[1].variant # node.body[3].variant
    /\ result.val = Some(node.body[2].e)

(***************************************************************************)
(* The collection accessors of the schema root.                            *)
(***************************************************************************)

\* The twelve accessors and what each returns on a body.
SchemaAccessors ==
    MultiAccessors("Schema") \cup {Accessor("elements", "Element")}

Returned(a, body) ==
    IF a.name = "elements" THEN elements(body)
    ELSE elements_from_body(body, a.variant)

\* The accessors that return the payload e on the body.
ReturnedBy(e, body) ==
    {a \in SchemaAccessors :
        \E k \in 1..Len(Returned(a, body)) : Returned(a, body)[k] = e}

RECURSIVE SumOfLengths(_, _)
SumOfLengths(accessors, body) ==
    IF accessors = {} THEN 0
    ELSE LET a == CHOOSE x \in accessors : TRUE
         IN Len(Returned(a, body)) + SumOfLengths(accessors \ {a}, body)

\* C29: the twelve collection accessors of the schema root partition the
\* body: every child is returned by exactly one accessor, except the
\* override children, which are constructed but returned by none, so that
\* the twelve lengths sum to the body length minus the number of override
\* children.
C29_AccessorsPartitionBody ==
    (phase = "built" /\ node.type = "Schema") =>
        /\ Cardinality(SchemaAccessors) = 12
        /\ \A i \in 1..Len(node.body) :
              Cardinality(ReturnedBy(node.body[i].e, node.body)) =
                  IF node.body[i].variant = "Override" THEN 0 ELSE 1
        /\ SumOfLengths(SchemaAccessors, node.body) =
              Len(node.body) - Count(node.body, "Override")
        /\ result.kind = "multi" =>
              \E a \in SchemaAccessors :
                  /\ a.name = result.op
                  /\ result.val = Returned(a, node.body)

\* elements() returned the one element of a schema that also holds an
\* override and an annotation.
C29_Witness ==
    /\ result.op = "elements"
    /\ node.type = "Schema"
    /\ Len(node.body) = 3
    /\ node.body[1].variant = "Override"
    /\ node.body[2].variant = "Element"
    /\ node.body[3].variant = "Annotation"
    /\ result.val = <<2>>

(***************************************************************************)
(* Properties of the particle tree.                                        *)
(***************************************************************************)

\* The paths of the particle nodes below n, whose own path is p: every
\* child that is not an annotation, and the particle nodes below each child
\* that is a sequence or a choice.
RECURSIVE ParticlePaths(_, _)
ParticlePaths(n, p) ==
    UNION {{Append(p, i)} \cup
              (IF n.body[i].variant \in {"Sequence", "Choice"}
               THEN ParticlePaths(n.nodes[i], Append(p, i)) ELSE {}) :
           i \in {j \in 1..Len(n.body) : n.body[j].variant # "Annotation"}}

\* The last call of items() returned one particle for each direct child
\* that is not an annotation, and nothing from further below.
Shallow ==
    LET n == NodeAt(node, result.val.at)
    IN /\ Len(result.val.items) =
            Cardinality({i \in 1..Len(n.body) : n.body[i].variant # "Annotation"})
       /\ \A k \in 1..Len(result.val.items) :
             /\ result.val.items[k].e \in 1..Len(n.body)
             /\ n.body[result.val.items[k].e].variant = result.val.items[k].case

\* No particle node was visited twice, every node visited is a particle
\* node of the tree, and when nothing is pending every one was visited.
VisitedOnce ==
    /\ \A i, j \in 1..Len(result.val.visited) :
          i # j => result.val.visited[i] # result.val.visited[j]
    /\ \A i \in 1..Len(result.val.visited) :
          result.val.visited[i] \in ParticlePaths(node, <<>>)
    /\ result.val.pending = <<>> =>
          {result.val.visited[i] : i \in 1..Len(result.val.visited)}
              = ParticlePaths(node, <<>>)

\* C30: items() on a sequence or a choice returns only its direct
\* children, a nested sequence or choice as one particle, and the traversal
\* that calls items() on every Sequence and Choice particle returned
\* terminates, having visited each particle node of the tree exactly once.
C30_ShallowAndTerminating ==
    /\ [](result.op = "traverse" =>
            /\ result.val.called => Shallow
            /\ VisitedOnce)
    /\ (result.op = "traverse") ~>
           (result.op = "traverse" /\ result.val.pending = <<>>)

\* The traversal of a tree three levels deep is over: it visited the
\* nested sequence, the choice below it and the element beside it.
C30_Witness ==
    /\ result.op = "traverse"
    /\ result.val.pending = <<>>
    /\ Len(node.body) = 2
    /\ node.body[1].variant = "Sequence"
    /\ node.body[2].variant = "Element"
    /\ Len(node.nodes[1].body) = 1
    /\ node.nodes[1].body[1].variant = "Choice"
    /\ Len(result.val.visited) = 3

====
